---- MODULE Spec2Model ----
(***************************************************************************)
(* Model of the gateway firmware core of EmbeddedSmartAlarm: the MQTT      *)
(* command dispatcher (wildcard matching, priority dispatch), the Opus     *)
(* jitter buffer between the WebSocket producer and the audio-decode       *)
(* consumer, the chunked MQTT upload protocol, and the recursive audio     *)
(* mutex.  Each component has its own specification over the shared        *)
(* variable tuple; the variables of the other components stay at their     *)
(* initial values.                                                         *)
(***************************************************************************)
EXTENDS Integers, Sequences, FiniteSets, TLC

VARIABLES
  \* ---- topicMatches, applied to one (pattern, topic) input
  mPattern,     \* the pattern argument, a sequence of one-character strings
  mTopic,       \* the topic argument
  mResult,      \* "none" before the call, then "true" / "false"
  \* ---- MQTTManager (dispatcher) fields and the record of the last dispatch
  handlers,     \* std::vector<MQTTHandler>: seq of [pattern, priority, id]
  nextId,       \* registration counter (identity of a registered callback)
  lastOp,       \* the last dispatcher operation: "none", "register", ...
  \* the record of a dispatch() call, kept while it is the last operation:
  dHandlers,    \* the handler table as it was when dispatch() was entered
  dTopic,       \* the topic dispatched
  dReturns,     \* what each callback returns for that message: id -> BOOLEAN
  invoked,      \* ids of the callbacks dispatch() called, in call order
  \* ---- streaming: AudioManager fields (audio_manager.cpp, streaming build)
  initialized,      \* AudioManager::initialized
  currentState,     \* AudioManager::currentState: "IDLE" or "STREAMING"
  opusDecoder,      \* AudioManager::opusDecoder: "null" or "decoder"
  prerollComplete,  \* AudioManager::prerollComplete
  \* ---- the jitter buffer: opusStreamBuffer, a byte stream.  Each byte is
  \* [b |-> value, off |-> offset of the byte within its push (0 and 1
  \* are the header), rem |-> bytes of the same push still to follow it,
  \* stale |-> the push wrote its header before the last reset]; off, rem
  \* and stale are bookkeeping of the model, the code stores only b.
  streamBuf,
  \* ---- WebSocket producer: position in the WStype_BIN branch
  ppc,              \* "idle", "hdr" (header send next), "payload"
  pFrame,           \* payload of the frame being pushed (<<>> when idle)
  pWritten,         \* bytes this push has stored so far (0 when idle)
  pushResult,       \* how the last push returned: "none" before any,
                    \* "dropped", "stored" or "partial"
  pushSeq,          \* parity of the number of times the branch was entered
  pStale,           \* (observer) the buffer was reset after this push had
                    \* written its header
  \* ---- audio-decode consumer: position in processStreamingAudio
  cpc,              \* "idle", "gate", "setgate", "hdr", "payload", "decode"
  packetLength,     \* local packetLength (header value read; 0 when idle)
  opusPacketBuffer, \* packet read for this call (<<>> when idle)
  lastOut,          \* frame written to I2S by the last call of
                    \* processStreamingAudio that returned: none (no call
                    \* yet, or nothing written) / silence / pcm
  \* ---- observers of the stream (not program state)
  pending,          \* accepted frames not yet obtained by the consumer
  fifoOk,           \* FALSE once the consumer's view departs from pending
  gateSeen,         \* this session, a gate check saw >= PREROLL_MIN_BYTES
  earlyUse,         \* the consumer consumed or decoded before gateSeen
  \* ---- chunked upload: SDManager
  sdReady,          \* sdManager set and SDManager::_ready
  sdFile,           \* SDManager::_file: name of the open file, or NoFile
  bytesSinceFlush,  \* SDManager::_bytesSinceFlush
  files,            \* the card: file name -> content, NoFile when absent
  \* ---- chunked upload: AudioManager fields (SD build)
  mqttManager,      \* AudioManager::mqttManager: "null" or "set"
  receivingFile,    \* AudioManager::receivingFile
  expectedSize,     \* AudioManager::expectedSize
  receivedSize,     \* AudioManager::receivedSize
  recvFilename,     \* AudioManager::recvFilename
  lastChunkTime,    \* lastChunkTime: millis() at the last START or chunk
  \* ---- observers of the upload (not program state)
  published,        \* handed to client->publish since the last START
  okChunks,         \* chunks written since the last START, and whether
                    \* the client was connected: [field, data, acked]
  upStatus,         \* outcome of the last START: "none", "receiving",
                    \* "open-failed", "write-failed", "complete"
  \* the last call of handleAudioChunk:
  hSeq,             \* parity of the number of calls that have returned
  hpc,              \* "close" while a call waits in closeFile(), else "idle"
  lastMsg,          \* its payload
  handled,          \* its return value: "none" before any, "true", "false"
  preReceiving,     \* receivingFile when it was entered
  \* ---- audio engine (SD build): AudioManager fields
  audioInitialized, \* AudioManager::initialized
  out,              \* AudioManager::out: "null" or "set"
  outGain,          \* the gain last given to out->SetGain, in tenths
  file,             \* AudioManager::file: "null" or "set"
  id3,              \* AudioManager::id3: "null" or "set"
  mp3,              \* AudioManager::mp3: "null", "running", or "stopped"
                    \* (the decoder exists and isRunning() is false)
  isPlaying,        \* AudioManager::isPlaying
  currentVolume,    \* AudioManager::currentVolume, in tenths
  audioMutexOwner,  \* holder of audioMutex: "none", "decode", "control"
  audioMutexCount,  \* recursive take count of audioMutex
  \* ---- audio-decode task: position in audioDecodeTask / loop()
  dpc,              \* "delay", "wait", "test", "decode", "give"; in the
                    \* streaming build "delay", "decode", "cleanup"
  waited,           \* ticks spent in the current wait for audioMutex
  lastLoop,         \* how the last loop() ended: "none", "ran", "skipped"
  mp3More,          \* (observer) what mp3->loop() returned in the loop()
                    \* call in progress: "none", "true", "false"
  \* ---- control task: position in playFile / playMP3 / stop / playing
  cpcCtl,           \* "idle", "locked", "give"
  ctlOp,            \* method in progress, "none" when idle
  ctlResult,        \* return value of the last method: none/true/false
  volArg,           \* (observer) argument of the last setVolume call, in
                    \* tenths; the constructor's 0.5 before any call
  lastStatus,       \* last status given to mqttManager->publish:
                    \* none/playing/finished
  \* ---- observers of the audio engine (not program state)
  accessTask,       \* task of the last access to the shared audio state
  accessHolder,     \* holder of audioMutex at that access
  useAfterDelete,   \* loop() called mp3->loop() on a deleted decoder
  \* ---- the I2S output bus, as the streaming methods leave it
  i2sRate,          \* sample rate last set on the bus
  stpc,             \* "write" while a stopStreaming() call waits in its
                    \* i2s_write of the silence frame, "clear" between its
                    \* two last writes, else "idle"
  \* ---- observers of playFile in the streaming build (not program state)
  playSeq,          \* parity of the number of playFile calls
  playResult,       \* return value of the last playFile: none/true/false
  playLog,          \* what the last playFile of the streaming build
                    \* reported: none / not initialized / not found /
                    \* unsupported / begin failed / playing
  playWas,          \* isPlaying when that call was made
  \* ---- observers of startStreaming, stopStreaming and stop
  callSeq,          \* parity of the number of calls of the three
  callOp,           \* the last one called, "none" before any
  callResult,       \* what it returned: none (void) / true / false
  callFrames,       \* the frames it wrote to the bus, in order
  \* ---- MQTTManager connection fields, after begin()
  connected,        \* client->connected()
  firstConnection,  \* MQTTManager::firstConnection
  subscribedTopics, \* MQTTManager::subscribedTopics, a sequence of topics
  lastReconnectAttempt, \* MQTTManager::lastReconnectAttempt
  millisNow,        \* millis(), in time units, modulo MillisWrap
  \* ---- observers of the connection (not program state)
  sinceAttempt,     \* time units since the last connect attempt (capped),
                    \* -1 before the first attempt
  attemptSeq,       \* parity of the number of connect attempts
  attemptGap,       \* sinceAttempt when the last attempt was made
  attemptKind,      \* the last attempt: "none", "failed", "first", "again"
  subCalls,         \* topics the last attempt asked to subscribe, in order
  everOk,           \* topics for which a subscribe call has succeeded
  unsubscribed,     \* topics whose last successful subscribe or
                    \* unsubscribe call was an unsubscribe
  loopSeq,          \* parity of the number of MQTTManager::loop() calls
  \* ---- observers of begin() (not program state)
  beginOp,          \* the last begin() called: "none", "AudioManager",
                    \* "SDManager"
  beginResult,      \* what it returned: none/true/false
  mountCalls,       \* what each SD.begin call it made returned, in order
  \* ---- HTTP download (AudioManager::downloadFile on the MQTT task)
  downloadingInProgress, \* AudioManager::downloadingInProgress
  dlpc,             \* position in downloadFile: "idle", "http", "loop",
                    \* or in closeFile's delay: "closefail", "close"
  dlLen,            \* local len: content length still expected, -1 unknown
  totalBytes,       \* local totalBytes
  dlResult,         \* what the last downloadFile returned: none/true/false
  \* ---- sensor task: position in the publish branch of sensorTask
  spc,              \* "wait", or "publish" once isDownloading() was false
  sensorPublishes,  \* parity of the number of sensor publishes made
  \* ---- the uploading client (environment)
  senderDone        \* it has stopped sending: no message arrives any more

matchVars == <<mPattern, mTopic, mResult>>
dispVars  == <<handlers, nextId, lastOp, dHandlers, dTopic, dReturns, invoked>>
audioVars == <<initialized, currentState, opusDecoder, prerollComplete>>
pushVars  == <<ppc, pFrame, pWritten, pushResult, pushSeq>>
prodVars  == <<pushVars, pStale>>
consVars  == <<cpc, packetLength, opusPacketBuffer, lastOut>>
obsVars   == <<pending, fifoOk, gateSeen, earlyUse>>
streamVars == <<audioVars, streamBuf, prodVars, consVars, obsVars>>
sdVars    == <<sdReady, sdFile, bytesSinceFlush, files>>
xferVars  == <<receivingFile, expectedSize, receivedSize, recvFilename,
               lastChunkTime>>
upObs     == <<published, okChunks, upStatus>>
callVars  == <<hSeq, hpc, lastMsg, handled, preReceiving>>
uploadVars == <<sdVars, mqttManager, xferVars, upObs, callVars>>
engineFields == <<audioInitialized, out, outGain, file, id3, mp3, isPlaying,
                  currentVolume>>
mutexVars == <<audioMutexOwner, audioMutexCount>>
decodeVars == <<dpc, waited, lastLoop, mp3More>>
ctlVars   == <<cpcCtl, ctlOp, ctlResult, volArg>>
accessVars == <<accessTask, accessHolder, useAfterDelete>>
engineVars == <<engineFields, mutexVars, decodeVars, ctlVars, lastStatus,
                accessVars>>
playbackVars == <<file, id3, mp3, isPlaying>>
modeObs   == <<playSeq, playResult, playLog, playWas>>
busVars   == <<i2sRate, stpc>>
callObs   == <<callSeq, callOp, callResult, callFrames>>
connVars  == <<connected, firstConnection, subscribedTopics,
               lastReconnectAttempt>>
clockVars == <<millisNow, sinceAttempt>>
connObs   == <<attemptSeq, attemptGap, attemptKind, subCalls, everOk,
               unsubscribed,
               loopSeq>>
linkVars  == <<connVars, clockVars, connObs>>
beginObs  == <<beginOp, beginResult, mountCalls>>
downloadVars == <<downloadingInProgress, dlpc, dlLen, totalBytes, dlResult>>
sensorVars == <<spc, sensorPublishes>>
auxVars   == <<beginObs, downloadVars, sensorVars, senderDone>>
vars == <<matchVars, dispVars, streamVars, uploadVars, engineVars, modeObs,
          linkVars, busVars, callObs, auxVars>>

\* What the steps of one component leave alone: the other components.
notMatch  == <<dispVars, streamVars, uploadVars, engineVars, modeObs,
               linkVars, busVars, callObs, auxVars>>
notDisp   == <<matchVars, streamVars, uploadVars, engineVars, modeObs,
               linkVars, busVars, callObs, auxVars>>
notStream == <<matchVars, dispVars, uploadVars, engineVars, modeObs,
               linkVars, busVars, callObs, auxVars>>
notUpload == <<matchVars, dispVars, streamVars, engineVars, modeObs,
               linkVars, busVars, callObs, auxVars>>
\* (mqttManager is shared by the upload and the engine)
notEngine == <<matchVars, dispVars, streamVars, sdVars, xferVars, upObs,
               callVars, modeObs, linkVars, busVars, callObs, auxVars>>
notLink   == <<matchVars, dispVars, streamVars, uploadVars, engineVars,
               modeObs, busVars, callObs, auxVars>>
\* What the streaming build's AudioManager methods leave alone: everything
\* but the stream and the file-playback fields.
notAudio  == <<matchVars, dispVars, uploadVars, audioInitialized, out, outGain,
               currentVolume, mutexVars, decodeVars, ctlVars, lastStatus,
               accessVars, linkVars, auxVars>>

(***************************************************************************)
(* Arduino String, as sequences of one-character strings, 0-based indices. *)
(***************************************************************************)

\* String::indexOf(ch, fromIndex): -1 when fromIndex >= length or not found.
RECURSIVE IndexOf(_, _, _)
IndexOf(s, ch, from) ==
  IF from >= Len(s) THEN -1
  ELSE IF s[from + 1] = ch THEN from
  ELSE IndexOf(s, ch, from + 1)

\* String::substring(left, right): swaps when left > right, "" when
\* left >= length, clips right to the length; characters [left, right).
Substring(s, left, right) ==
  LET l == IF left > right THEN right ELSE left
      r0 == IF left > right THEN left ELSE right
      r == IF r0 > Len(s) THEN Len(s) ELSE r0
  IN IF l >= Len(s) THEN <<>> ELSE SubSeq(s, l + 1, r)

\* The while loop of topicMatches from (patternIdx, topicIdx) on, and the
\* return statement that follows it.
RECURSIVE MatchLoop(_, _, _, _)
MatchLoop(pattern, topic, patternIdx, topicIdx) ==
  LET patternLen == Len(pattern)
      topicLen == Len(topic)
  IN
  IF ~(patternIdx < patternLen /\ topicIdx < topicLen)
  THEN patternIdx >= patternLen /\ topicIdx >= topicLen
  ELSE IF /\ pattern[patternIdx + 1] = "#"
          /\ (\/ patternIdx = patternLen - 1
              \/ pattern[patternIdx + 2] = "/")
  THEN TRUE
  ELSE
    LET pSep0 == IndexOf(pattern, "/", patternIdx)
        tSep0 == IndexOf(topic, "/", topicIdx)
        patternSep == IF pSep0 = -1 THEN patternLen ELSE pSep0
        topicSep == IF tSep0 = -1 THEN topicLen ELSE tSep0
        patternLevel == Substring(pattern, patternIdx, patternSep)
        topicLevel == Substring(topic, topicIdx, topicSep)
    IN IF patternLevel # <<"+">> /\ patternLevel # topicLevel
       THEN FALSE
       ELSE MatchLoop(pattern, topic, patternSep + 1, topicSep + 1)

\* MQTTManager::topicMatches(pattern, topic)
topicMatches(pattern, topic) ==
  IF pattern = topic THEN TRUE
  ELSE IF IndexOf(pattern, "+", 0) = -1 /\ IndexOf(pattern, "#", 0) = -1
  THEN FALSE
  ELSE MatchLoop(pattern, topic, 0, 0)

(***************************************************************************)
(* The publish/subscribe wildcard semantics the matcher is documented to   *)
(* implement, stated on segment lists.                                     *)
(***************************************************************************)

\* The segments of s, split on '/': n separators give n + 1 segments.
RECURSIVE SplitFrom(_, _)
SplitFrom(s, from) ==
  LET sep == IndexOf(s, "/", from)
  IN IF sep = -1 THEN <<SubSeq(s, from + 1, Len(s))>>
     ELSE <<SubSeq(s, from + 1, sep)>> \o SplitFrom(s, sep + 1)

Segments(s) == SplitFrom(s, 0)

\* Segment-wise matching: a final "#" absorbs the remainder of the topic, a
\* "+" matches one segment of any content, any other segment is literal, and
\* the counts must agree when no trailing "#" absorbed the rest.
RECURSIVE SegMatch(_, _)
SegMatch(ps, ts) ==
  IF ps = <<>> THEN ts = <<>>
  ELSE IF Head(ps) = <<"#">> /\ Len(ps) = 1 THEN TRUE
  ELSE IF ts = <<>> THEN FALSE
  ELSE /\ (Head(ps) = <<"+">> \/ Head(ps) = Head(ts))
       /\ SegMatch(Tail(ps), Tail(ts))

StandardMatch(pattern, topic) == SegMatch(Segments(pattern), Segments(topic))

(***************************************************************************)
(* Bounded inputs: strings are joined from at most MaxSegs segments.       *)
(***************************************************************************)
MaxSegs == 3

PatternSegs == {<<>>, <<"a">>, <<"b">>, <<"+">>, <<"#">>}
TopicSegs == {<<>>, <<"a">>, <<"b">>}

RECURSIVE Join(_)
Join(segs) ==
  IF Len(segs) = 1 THEN segs[1]
  ELSE segs[1] \o <<"/">> \o Join(Tail(segs))

SegLists(S) == UNION {[1..n -> S] : n \in 1..MaxSegs}

Patterns == {Join(l) : l \in SegLists(PatternSegs)}
Topics == {Join(l) : l \in SegLists(TopicSegs)}

BoolStr(b) == IF b THEN "true" ELSE "false"

(***************************************************************************)
(* MQTTManager: the handler table and dispatch.                            *)
(***************************************************************************)
MaxHandlers == 3

Priorities == {100, 150}
HandlerPatterns == {<<"a", "/", "+">>, <<"#">>}
DispatchTopics == {<<"a", "/", "b">>, <<"b">>}
HandlerIds == 1..MaxHandlers

\* The registrations that use the default argument priority = 100, and the
\* number of registrations followed.
DEFAULT_PRIORITY == 100
DefaultPattern == <<"#">>
TableMax == 18

(***************************************************************************)
(* std::sort(handlers.begin(), handlers.end(), comp) as libstdc++ runs it: *)
(* an introsort pass that partitions every range longer than 16 elements   *)
(* around a median of three, then a final insertion sort.  Positions are   *)
(* 1-based; a range is [first, last).  (The heap-sort fallback of the      *)
(* introsort pass needs its depth limit 2*lg(n) >= 8 used up by ranges     *)
(* longer than 16; a table of at most TableMax entries has at most         *)
(* TableMax - 16 nested such ranges.)                                      *)
(***************************************************************************)
SortThreshold == 16

\* the comparator of registerHandler
Comp(a, b) == a.priority > b.priority

\* std::iter_swap
IterSwap(v, i, j) == [v EXCEPT ![i] = v[j], ![j] = v[i]]

\* std::__move_median_to_first(result, a, b, c, comp)
MoveMedianToFirst(v, result, a, b, c) ==
  IF Comp(v[a], v[b])
  THEN IF Comp(v[b], v[c]) THEN IterSwap(v, result, b)
       ELSE IF Comp(v[a], v[c]) THEN IterSwap(v, result, c)
       ELSE IterSwap(v, result, a)
  ELSE IF Comp(v[a], v[c]) THEN IterSwap(v, result, a)
       ELSE IF Comp(v[b], v[c]) THEN IterSwap(v, result, c)
       ELSE IterSwap(v, result, b)

\* while (comp(first, pivot)) ++first;
RECURSIVE ScanUp(_, _, _)
ScanUp(v, first, pivot) ==
  IF Comp(v[first], v[pivot]) THEN ScanUp(v, first + 1, pivot) ELSE first

\* while (comp(pivot, last)) --last;
RECURSIVE ScanDown(_, _, _)
ScanDown(v, last, pivot) ==
  IF Comp(v[pivot], v[last]) THEN ScanDown(v, last - 1, pivot) ELSE last

\* std::__unguarded_partition(first, last, pivot, comp): the vector after
\* the swaps and the cut position returned.
RECURSIVE UnguardedPartition(_, _, _, _)
PartitionSwap(v, f, l, pivot) ==
  IF ~(f < l) THEN [v |-> v, cut |-> f]
  ELSE UnguardedPartition(IterSwap(v, f, l), f + 1, l, pivot)

UnguardedPartition(v, first, last, pivot) ==
  PartitionSwap(v, ScanUp(v, first, pivot), ScanDown(v, last - 1, pivot),
                pivot)

\* std::__unguarded_partition_pivot(first, last, comp)
UnguardedPartitionPivot(v, first, last) ==
  UnguardedPartition(
    MoveMedianToFirst(v, first, first + 1, first + (last - first) \div 2,
                      last - 1),
    first + 1, last, first)

\* std::__introsort_loop(first, last, depth_limit, comp)
RECURSIVE IntrosortLoop(_, _, _)
IntrosortCut(p, first, last) ==
  IntrosortLoop(IntrosortLoop(p.v, p.cut, last), first, p.cut)

IntrosortLoop(v, first, last) ==
  IF last - first > SortThreshold
  THEN IntrosortCut(UnguardedPartitionPivot(v, first, last), first, last)
  ELSE v

\* std::__unguarded_linear_insert(last, comp) with val = *last
RECURSIVE UnguardedLinearInsert(_, _, _)
UnguardedLinearInsert(v, last, val) ==
  IF Comp(val, v[last - 1])
  THEN UnguardedLinearInsert([v EXCEPT ![last] = v[last - 1]], last - 1, val)
  ELSE [v EXCEPT ![last] = val]

\* std::__insertion_sort(first, last, comp), from position i on
RECURSIVE InsertionSort(_, _, _, _)
InsertionSort(v, first, i, last) ==
  IF i >= last THEN v
  ELSE InsertionSort(
         IF Comp(v[i], v[first])
         THEN SubSeq(v, 1, first - 1) \o <<v[i]>> \o SubSeq(v, first, i - 1)
              \o SubSeq(v, i + 1, Len(v))
         ELSE UnguardedLinearInsert(v, i, v[i]),
         first, i + 1, last)

\* std::__unguarded_insertion_sort(first, last, comp), from position i on
RECURSIVE UnguardedInsertionSort(_, _, _)
UnguardedInsertionSort(v, i, last) ==
  IF i >= last THEN v
  ELSE UnguardedInsertionSort(UnguardedLinearInsert(v, i, v[i]), i + 1, last)

\* std::__final_insertion_sort(first, last, comp)
FinalInsertionSort(v, first, last) ==
  IF last - first > SortThreshold
  THEN UnguardedInsertionSort(
         InsertionSort(v, first, first + 1, first + SortThreshold),
         first + SortThreshold, last)
  ELSE InsertionSort(v, first, first + 1, last)

\* std::sort(handlers.begin(), handlers.end(), comp)
SortByPriority(v) ==
  IF v = <<>> THEN v
  ELSE FinalInsertionSort(IntrosortLoop(v, 1, Len(v) + 1), 1, Len(v) + 1)

\* The dispatch loop without the break after a callback returns true.
RECURSIVE DispatchLoopNoBreak(_, _, _, _)
DispatchLoopNoBreak(table, i, topic, rets) ==
  IF i > Len(table) THEN <<>>
  ELSE IF topicMatches(table[i].pattern, topic)
  THEN <<table[i].id>> \o DispatchLoopNoBreak(table, i + 1, topic, rets)
  ELSE DispatchLoopNoBreak(table, i + 1, topic, rets)

\* The for loop of dispatch() from table position i on: the ids of the
\* callbacks it calls.  rets[id] is what callback id returns.
RECURSIVE DispatchLoop(_, _, _, _)
DispatchLoop(table, i, topic, rets) ==
  IF i > Len(table) THEN <<>>
  ELSE IF topicMatches(table[i].pattern, topic)
  THEN IF rets[table[i].id]
       THEN <<table[i].id>>
       ELSE <<table[i].id>> \o DispatchLoop(table, i + 1, topic, rets)
  ELSE DispatchLoop(table, i + 1, topic, rets)

(***************************************************************************)
(* Streaming: constants of streaming_config.h.  The buffer capacity and    *)
(* the maximum packet size are scaled down; the header size and the        *)
(* pre-roll percentage are the program's.                                  *)
(***************************************************************************)
BufferSizeBytes == 5        \* stands for BUFFER_SIZE_BYTES (8192)
MaxOpusPacketSize == 1      \* stands for MAX_OPUS_PACKET_SIZE (512)
PACKET_HEADER_SIZE == 2
STREAM_SAMPLE_RATE == 48000
FILE_SAMPLE_RATE == 44100   \* the rate stopStreaming restores
PREROLL_BUFFER_PERCENT == 50
PREROLL_MIN_BYTES == (BufferSizeBytes * PREROLL_BUFFER_PERCENT) \div 100

\* Inbound binary frames: non-empty, up to one byte longer than the
\* maximum packet size, bytes from PayloadBytes.
MaxFrameLen == MaxOpusPacketSize + 1
Alternating(n) == [k \in 1..n |-> k % 2]
Frames == {<<0>>} \cup {Alternating(n) : n \in 1..MaxFrameLen}

Min(a, b) == IF a < b THEN a ELSE b

\* xStreamBufferSpacesAvailable / xStreamBufferBytesAvailable
SpacesAvailable(buf) == BufferSizeBytes - Len(buf)
BytesAvailable(buf) == Len(buf)

\* xStreamBufferSend(buf, data, n, 0) on a stream buffer: stores as many of
\* the bytes as fit, in one step as seen by the reader.
SendCount(buf, n) == Min(n, SpacesAvailable(buf))

\* xStreamBufferReceive(buf, dst, n, timeout): returns what is there, up to
\* n bytes (trigger level 1); nothing when the wait times out on an empty
\* buffer.
ReceiveCount(buf, n) == Min(n, BytesAvailable(buf))

\* The two header bytes of a uint16_t length, little-endian, and back.
HeaderBytes(len) == <<len % 256, (len \div 256) % 256>>
HeaderValue(b0, b1) == b0 + 256 * b1

\* Bytes of one push with their position bookkeeping: the byte at offset k
\* (0-based) of a push of total bytes is followed by total - 1 - k more.
Tagged(bytes, first, total, stale) ==
  [k \in 1..Len(bytes) |->
     [b |-> bytes[k], off |-> first + k - 1, rem |-> total - first - k,
      stale |-> stale]]

Values(tagged) == [k \in 1..Len(tagged) |-> tagged[k].b]

(***************************************************************************)
(* Chunked upload: AudioManager::handleAudioChunk (SD build) over          *)
(* SDManager.  Payloads and file contents are sequences of one-character   *)
(* strings; positions inside the operators are 0-based as in the code.     *)
(***************************************************************************)
DiskBytes == 3        \* bytes the card can hold in one file
WriteLimits == {0, 1, DiskBytes}  \* bytes one File::write call may store
FlushEvery == 2       \* stands for the 32768-byte auto-flush interval

START_PREFIX == <<"S", "T", "A", "R", "T", ":">>
CHUNK_PREFIX == <<"C", "H", "U", "N", "K", ":">>
END_MSG == <<"E", "N", "D">>
ACK_PREFIX == <<"A", "C", "K", ":">>
UPLOAD_COMPLETE == <<"UPLOAD_COMPLETE">>
REQUEST_FREE_SPACE == <<"R", "E", "Q", "U", "E", "S", "T", "_", "F", "R", "E",
                        "E", "_", "S", "P", "A", "C", "E">>
FREE_PREFIX == <<"F", "R", "E", "E", ":">>
FreeSpaceDummy == 100000000   \* freeSpace reported by handleAudioRequest
MaxRequests == 1      \* free-space replies followed between two STARTs

\* The messages delivered to the handler.
UploadStarts == {START_PREFIX \o <<"2">>, START_PREFIX \o <<"3", ":", "u">>}
UploadChunks == {CHUNK_PREFIX \o <<"0", ":", "2", ":", "a", ":">>,
                 CHUNK_PREFIX \o <<"0", "1", ":", "2", ":", "c">>,
                 CHUNK_PREFIX \o <<"2", ":", "3", ":">>,
                 CHUNK_PREFIX \o <<"2", ":", "a", "b">>}
UploadOthers == {CHUNK_PREFIX}
\* The messages delivered to the handler of the request topic.
RequestMsgs == {REQUEST_FREE_SPACE, SubSeq(REQUEST_FREE_SPACE, 1, 12)}
UploadMsgs == UploadStarts \cup UploadChunks \cup {END_MSG} \cup UploadOthers

NoFile == <<"no file">>
FileNames == {<<"/uploaded.mp3">>, <<"/sound_", "u", ".mp3">>}

\* memcmp(payload, prefix, 6) == 0 under the guard length > 6
HasPrefix(payload, prefix) ==
  /\ Len(payload) >= Len(prefix)
  /\ SubSeq(payload, 1, Len(prefix)) = prefix

DecDigits == <<"0", "1", "2", "3", "4", "5", "6", "7", "8", "9">>
IsDigit(c) == \E d \in 1..10 : DecDigits[d] = c
DigitValue(c) == (CHOOSE d \in 1..10 : DecDigits[d] = c) - 1

\* atoi / atol on a character sequence without leading white space: an
\* optional sign, then digits up to the first other character.
RECURSIVE AtoiDigits(_, _, _)
AtoiDigits(s, i, acc) ==
  IF i > Len(s) \/ ~IsDigit(s[i]) THEN acc
  ELSE AtoiDigits(s, i + 1, 10 * acc + DigitValue(s[i]))

Atoi(s) ==
  IF s = <<>> THEN 0
  ELSE IF s[1] = "-" THEN 0 - AtoiDigits(s, 2, 0)
  ELSE IF s[1] = "+" THEN AtoiDigits(s, 2, 0)
  ELSE AtoiDigits(s, 1, 0)

\* printf("%d"): the decimal digits of an int.
RECURSIVE DecimalOfNat(_)
DecimalOfNat(n) ==
  IF n < 10 THEN <<DecDigits[n + 1]>>
  ELSE DecimalOfNat(n \div 10) \o <<DecDigits[(n % 10) + 1]>>

Decimal(n) == IF n < 0 THEN <<"-">> \o DecimalOfNat(0 - n) ELSE DecimalOfNat(n)

\* static parseNumberFromPayload(payload, start, end)
parseNumberFromPayload(payload, start, end) ==
  LET len == end - start
  IN IF len <= 0 \/ len >= 16 THEN 0
     ELSE Atoi(SubSeq(payload, start + 1, end))

\* The colon scan of the CHUNK branch from index i on: <<firstColon,
\* secondColon>>, -1 for a colon not found.
RECURSIVE ChunkColons(_, _, _)
ChunkColons(payload, i, firstColon) ==
  IF i >= Len(payload) THEN <<firstColon, -1>>
  ELSE IF payload[i + 1] = ":"
  THEN IF firstColon = -1
       THEN ChunkColons(payload, i + 1, i)
       ELSE <<firstColon, i>>
  ELSE ChunkColons(payload, i + 1, firstColon)

\* snprintf(ackBuf, sizeof(ackBuf), "ACK:%d", chunkIndex), every index
\* acknowledged as index 0.
AckMessageZero(chunkIndex) == ACK_PREFIX \o Decimal(0)

\* snprintf(ackBuf, sizeof(ackBuf), "ACK:%d", chunkIndex)
AckMessage(chunkIndex) == ACK_PREFIX \o Decimal(chunkIndex)

\* MQTTManager::publish(topic, message): the messages handed to
\* client->publish, in order.  Not connected: nothing is handed over.
Published(log, topic, message) ==
  IF connected THEN Append(log, [topic |-> topic, msg |-> message]) ELSE log

UploadInit ==
  /\ sdReady = FALSE
  /\ sdFile = NoFile
  /\ bytesSinceFlush = 0
  /\ files = [n \in FileNames |-> NoFile]
  /\ mqttManager = "null"
  /\ receivingFile = FALSE
  /\ expectedSize = 0
  /\ receivedSize = 0
  /\ recvFilename = <<>>
  /\ published = <<>>
  /\ okChunks = <<>>
  /\ hSeq = 0
  /\ hpc = "idle"
  /\ lastMsg = <<>>
  /\ handled = "none"
  /\ preReceiving = FALSE
  /\ upStatus = "none"
  /\ lastChunkTime = 0


(***************************************************************************)
(* Audio engine of the SD build: AudioManager with the recursive           *)
(* audioMutex.  The audio-decode task runs loop(); the control task (the   *)
(* MQTT task running the command handlers) calls the other methods.        *)
(* Volumes are in tenths.                                                  *)
(***************************************************************************)
LoopTakeTicks == 5
\* Stands for the float NaN, which String::toFloat() returns for "nan" and
\* which every comparison finds neither below nor above a number.
NaN == -1000
VolumeInputs == {-5, 3, 15, NaN}

\* constrain(volume, 0.0, 1.0)
Constrain(v, lo, hi) == IF v < lo THEN lo ELSE IF v > hi THEN hi ELSE v

\* constrain on a float: with NaN both comparisons of the macro are false
\* and the macro yields its argument.
ConstrainFloat(v, lo, hi) == IF v = NaN THEN v ELSE Constrain(v, lo, hi)

EngineInit ==
  /\ audioInitialized = FALSE
  /\ out = "null"
  /\ outGain = 0
  /\ file = "null"
  /\ id3 = "null"
  /\ mp3 = "null"
  /\ isPlaying = FALSE
  /\ currentVolume = 5
  /\ audioMutexOwner = "none"
  /\ audioMutexCount = 0
  /\ dpc = "delay"
  /\ waited = 0
  /\ lastLoop = "none"
  /\ mp3More = "none"
  /\ cpcCtl = "idle"
  /\ ctlOp = "none"
  /\ ctlResult = "none"
  /\ volArg = 5
  /\ lastStatus = "none"
  /\ accessTask = "none"
  /\ accessHolder = "none"
  /\ useAfterDelete = FALSE

\* AudioManager::cleanup(), the same in both builds
Cleanup ==
  /\ mp3' = "null"
  /\ id3' = "null"
  /\ file' = "null"
  /\ isPlaying' = FALSE

\* File names given to playFile, and the extension it accepts.
MP3_EXT == <<".", "m", "p", "3">>
PlayNames == {<<"/", "a">> \o MP3_EXT,
              <<"/", "a", ".", "M", "P", "3">>,
              <<"/", "a", ".", "w", "a", "v">>,
              <<"m", "p", "3">>}

\* String::toLowerCase() on the characters used here
LowerChar(c) ==
  CASE c = "M" -> "m"
    [] c = "P" -> "p"
    [] OTHER -> c
ToLowerCase(str) == [i \in 1..Len(str) |-> LowerChar(str[i])]

\* String::endsWith(suffix)
EndsWith(str, suffix) ==
  /\ Len(str) >= Len(suffix)
  /\ SubSeq(str, Len(str) - Len(suffix) + 1, Len(str)) = suffix

\* MQTTManager() followed by begin(): not connected, nothing subscribed.
\* Before any begin() call.
BeginInit ==
  /\ beginOp = "none"
  /\ beginResult = "none"
  /\ mountCalls = <<>>

\* No download running, the sensor task between two publish rounds.
DownloadInit ==
  /\ downloadingInProgress = FALSE
  /\ dlpc = "idle"
  /\ dlLen = 0
  /\ totalBytes = 0
  /\ dlResult = "none"
  /\ spc = "wait"
  /\ sensorPublishes = 0
  /\ senderDone = FALSE

AuxInit == BeginInit /\ DownloadInit

LinkInit ==
  /\ connected = FALSE
  /\ firstConnection = TRUE
  /\ subscribedTopics = <<>>
  /\ lastReconnectAttempt = 0
  /\ millisNow = 0
  /\ sinceAttempt = -1
  /\ attemptSeq = 0
  /\ attemptGap = -1
  /\ attemptKind = "none"
  /\ subCalls = <<>>
  /\ everOk = {}
  /\ unsubscribed = {}
  /\ loopSeq = 0

\* After the first reconnect() has succeeded with an empty handler table.
LinkUpInit ==
  /\ connected = TRUE
  /\ firstConnection = FALSE
  /\ subscribedTopics = <<>>
  /\ lastReconnectAttempt = 0
  /\ millisNow = 0
  /\ sinceAttempt = 0
  /\ attemptSeq = 1
  /\ attemptGap = -1
  /\ attemptKind = "first"
  /\ subCalls = <<>>
  /\ everOk = {}
  /\ unsubscribed = {}
  /\ loopSeq = 0

ModeInit ==
  /\ playSeq = 0
  /\ playResult = "none"
  /\ playLog = "none"
  /\ playWas = FALSE
  /\ callSeq = 0
  /\ callOp = "none"
  /\ callResult = "none"
  /\ callFrames = <<>>

StreamInit ==
  /\ initialized = FALSE
  /\ currentState = "IDLE"
  /\ opusDecoder = "null"
  /\ prerollComplete = FALSE
  /\ streamBuf = <<>>
  /\ ppc = "idle"
  /\ pFrame = <<>>
  /\ pWritten = 0
  /\ pushResult = "none"
  /\ pushSeq = 0
  /\ pStale = FALSE
  /\ cpc = "idle"
  /\ packetLength = 0
  /\ opusPacketBuffer = <<>>
  /\ lastOut = "none"
  /\ pending = <<>>
  /\ fifoOk = TRUE
  /\ gateSeen = FALSE
  /\ earlyUse = FALSE
  /\ i2sRate = FILE_SAMPLE_RATE
  /\ stpc = "idle"

MatchInit ==
  /\ mPattern = <<>>
  /\ mTopic = <<>>
  /\ mResult = "none"

NoDispatchRecord ==
  /\ dHandlers = <<>>
  /\ dTopic = <<>>
  /\ dReturns = [i \in HandlerIds |-> FALSE]
  /\ invoked = <<>>

ClearDispatchRecord ==
  /\ dHandlers' = <<>>
  /\ dTopic' = <<>>
  /\ dReturns' = [i \in HandlerIds |-> FALSE]
  /\ invoked' = <<>>

DispInit ==
  /\ handlers = <<>>
  /\ nextId = 1
  /\ lastOp = "none"
  /\ NoDispatchRecord

\* MQTTManager::registerHandler(topicPattern, callback, name, priority)
registerHandler(pattern, priority) ==
  /\ handlers' = SortByPriority(
       Append(handlers, [pattern |-> pattern, priority |-> priority,
                         id |-> nextId]))
  /\ nextId' = nextId + 1
  /\ lastOp' = "register"
  /\ ClearDispatchRecord

\* MQTTManager::unregisterHandler(topicPattern)
unregisterHandler(pattern) ==
  /\ handlers' = SelectSeq(handlers, LAMBDA h : h.pattern # pattern)
  /\ lastOp' = "unregister"
  /\ ClearDispatchRecord
  /\ UNCHANGED nextId

\* MQTTManager::dispatch(topic, payload, length); the callbacks' return
\* values for this message are the input rets.
dispatch(topic, rets) ==
  /\ dHandlers' = handlers
  /\ dTopic' = topic
  /\ dReturns' = rets
  /\ invoked' = DispatchLoop(handlers, 1, topic, rets)
  /\ lastOp' = "dispatch"
  /\ UNCHANGED <<handlers, nextId>>

RegisterStep ==
  /\ nextId <= MaxHandlers
  /\ \E p \in HandlerPatterns, pr \in Priorities : registerHandler(p, pr)
  /\ UNCHANGED notDisp

UnregisterStep ==
  /\ \E p \in HandlerPatterns : unregisterHandler(p)
  /\ UNCHANGED notDisp

DispatchStep ==
  /\ \E t \in DispatchTopics, rets \in [HandlerIds -> BOOLEAN] :
       dispatch(t, rets)
  /\ UNCHANGED notDisp

DispatchNext == RegisterStep \/ UnregisterStep \/ DispatchStep

InitDispatch ==
  MatchInit /\ DispInit /\ StreamInit /\ UploadInit /\ EngineInit /\ ModeInit
  /\ LinkInit /\ AuxInit

SpecDispatch == InitDispatch /\ [][DispatchNext]_vars

\* Table positions whose pattern matches the dispatched topic, those whose
\* callback claims the message, and the positions up to the first claimer.
MatchingPos == {i \in 1..Len(dHandlers) :
                  topicMatches(dHandlers[i].pattern, dTopic)}
ClaimingPos == {i \in MatchingPos : dReturns[dHandlers[i].id]}
VisitedPos == {i \in MatchingPos : \A c \in ClaimingPos : i <= c}

\* C2: dispatch calls exactly the matching handlers, in table order, up to
\* and including the first one whose callback returns true, and leaves the
\* handler table and registration counter as they were.
C2_DispatchFirstClaimer ==
  lastOp = "dispatch" =>
    /\ Len(invoked) = Cardinality(VisitedPos)
    /\ \A k \in 1..Len(invoked) :
         \E i \in VisitedPos :
           /\ invoked[k] = dHandlers[i].id
           /\ Cardinality({j \in VisitedPos : j < i}) = k - 1
    /\ handlers = dHandlers

\* Three handlers match; the first declines, the second claims, the third
\* is never called.
C2_Witness ==
  /\ lastOp = "dispatch"
  /\ Cardinality(MatchingPos) = 3
  /\ Len(invoked) = 2
  /\ ~dReturns[invoked[1]]
  /\ dReturns[invoked[2]]

(***************************************************************************)
(* The handler table under many registrations: the first MaxHandlers       *)
(* registrations choose pattern and priority, the later ones register      *)
(* DefaultPattern with the default priority, up to TableMax registrations. *)
(***************************************************************************)
RegisterDefault ==
  /\ nextId > MaxHandlers
  /\ nextId <= TableMax
  /\ registerHandler(DefaultPattern, DEFAULT_PRIORITY)
  /\ UNCHANGED notDisp

TableNext == RegisterStep \/ RegisterDefault \/ UnregisterStep

InitTable ==
  MatchInit /\ DispInit /\ StreamInit /\ UploadInit /\ EngineInit /\ ModeInit
  /\ LinkInit /\ AuxInit

SpecTable == InitTable /\ [][TableNext]_vars

\* C14: the handler table is ordered by priority descending, and handlers
\* of equal priority are in registration order (ids grow with registration).
C14_TableOrdered ==
  \A i, j \in 1..Len(handlers) :
    i < j => \/ handlers[i].priority > handlers[j].priority
             \/ /\ handlers[i].priority = handlers[j].priority
                /\ handlers[i].id < handlers[j].id

(***************************************************************************)
(* MQTTManager: connection management.  connectOk is what client->connect  *)
(* returns; rets[i] is what the i-th subscribe call of subscribeAll()      *)
(* returns.  Time is counted in units of which BackoffInterval make up the *)
(* 5000 ms of loop(); millis() wraps at MillisWrap.                        *)
(***************************************************************************)
BackoffInterval == 3
MillisWrap == 8
SinceCap == MillisWrap + BackoffInterval + 1

\* the elements of a sequence
Range(seq) == {seq[i] : i \in 1..Len(seq)}

\* the topic patterns of the handler table from position i on, in order
RECURSIVE PatternsOf(_, _)
PatternsOf(table, i) ==
  IF i > Len(table) THEN <<>>
  ELSE <<table[i].pattern>> \o PatternsOf(table, i + 1)

\* subscribe(): subscribedTopics after a call whose client->subscribe
\* returned ok
Tracked(subs, topic, ok) ==
  IF ok /\ topic \notin Range(subs) THEN Append(subs, topic) ELSE subs

\* subscribeAll() from table position i on: subscribedTopics afterwards
RECURSIVE SubscribeAllFrom(_, _, _, _)
SubscribeAllFrom(table, i, subs, rets) ==
  IF i > Len(table) THEN subs
  ELSE SubscribeAllFrom(table, i + 1,
                        Tracked(subs, table[i].pattern, rets[i]), rets)

\* A reconnection that subscribes the patterns of the handler table again.
ResubscribeHandlers(table, subs) == PatternsOf(table, 1)

\* reconnect(), not the first connection: the topics given to
\* client->subscribe by the loop over subscribedTopics
ResubscribeTopics(table, subs) == subs

\* A backoff test that lets an attempt through when exactly the interval
\* has passed.
AttemptDueAtInterval(now, last) ==
  ((now - last + MillisWrap) % MillisWrap) >= BackoffInterval

\* loop(): now - lastReconnectAttempt > 5000, in unsigned arithmetic
AttemptDue(now, last) ==
  ((now - last + MillisWrap) % MillisWrap) > BackoffInterval

\* MQTTManager::reconnect() while the client is not connected (connected:
\* it returns true at once).
reconnect(connectOk, rets) ==
  /\ attemptSeq' = 1 - attemptSeq
  /\ attemptGap' = sinceAttempt
  /\ sinceAttempt' = 0
  /\ IF connectOk
     THEN /\ connected' = TRUE
          /\ firstConnection' = FALSE
          /\ IF firstConnection
             THEN /\ subscribedTopics' =
                       SubscribeAllFrom(handlers, 1, subscribedTopics, rets)
                  /\ subCalls' = PatternsOf(handlers, 1)
                  /\ everOk' = everOk \cup
                       {handlers[i].pattern :
                          i \in {k \in 1..Len(handlers) : rets[k]}}
                  /\ unsubscribed' = unsubscribed \
                       {handlers[i].pattern :
                          i \in {k \in 1..Len(handlers) : rets[k]}}
                  /\ attemptKind' = "first"
             ELSE /\ subCalls' = ResubscribeTopics(handlers, subscribedTopics)
                  /\ attemptKind' = "again"
                  /\ UNCHANGED <<subscribedTopics, everOk, unsubscribed>>
     ELSE /\ attemptKind' = "failed"
          /\ subCalls' = <<>>
          /\ UNCHANGED <<connected, firstConnection, subscribedTopics, everOk,
                         unsubscribed>>

\* A direct call of reconnect()
ReconnectCall ==
  /\ ~connected
  /\ \E connectOk \in BOOLEAN, rets \in [1..MaxHandlers -> BOOLEAN] :
       reconnect(connectOk, rets)
  /\ UNCHANGED <<notLink, lastReconnectAttempt, millisNow, loopSeq>>

\* MQTTManager::subscribe(topic) while connected; ok is what
\* client->subscribe returns.  (Not connected: returns false.)
subscribe(topic, ok) ==
  /\ connected
  /\ subscribedTopics' = Tracked(subscribedTopics, topic, ok)
  /\ everOk' = IF ok THEN everOk \cup {topic} ELSE everOk
  /\ unsubscribed' = IF ok THEN unsubscribed \ {topic} ELSE unsubscribed
  /\ UNCHANGED <<notLink, connected, firstConnection, lastReconnectAttempt,
                 clockVars, attemptSeq, attemptGap, attemptKind, subCalls,
                 loopSeq>>

SubscribeCall == \E t \in HandlerPatterns, ok \in BOOLEAN : subscribe(t, ok)

\* MQTTManager::unsubscribe(topic) while connected; ok is what
\* client->unsubscribe returns.  (Not connected: returns false.)  No field
\* of the manager is assigned.
unsubscribe(topic, ok) ==
  /\ connected
  /\ unsubscribed' = IF ok THEN unsubscribed \cup {topic} ELSE unsubscribed
  /\ UNCHANGED <<notLink, connVars, clockVars, attemptSeq, attemptGap,
                 attemptKind, subCalls, everOk, loopSeq>>

UnsubscribeCall ==
  \E t \in HandlerPatterns, ok \in BOOLEAN : unsubscribe(t, ok)

\* The connection to the broker is lost.
ConnectionLost ==
  /\ connected
  /\ connected' = FALSE
  /\ UNCHANGED <<notLink, firstConnection, subscribedTopics,
                 lastReconnectAttempt, clockVars, connObs>>

ConnNext ==
  \/ RegisterStep
  \/ UnregisterStep
  \/ ReconnectCall
  \/ SubscribeCall
  \/ ConnectionLost

InitConn ==
  MatchInit /\ DispInit /\ StreamInit /\ UploadInit /\ EngineInit /\ ModeInit
  /\ LinkInit /\ AuxInit

SpecConn == InitConn /\ [][ConnNext]_vars

\* A step in which a connect attempt is made.
AttemptMade == attemptSeq' # attemptSeq

\* C15: the first successful connect asks to subscribe every pattern of the
\* handler table, in table order, and uses up the first-connection step; a
\* later successful connect asks for exactly the topics in subscribedTopics
\* and leaves that list as it is; a failed attempt subscribes nothing and
\* leaves firstConnection as it was; and subscribedTopics holds exactly the
\* topics for which a subscribe call has succeeded, each once.
C15_ResubscribeTracked ==
  /\ [][(AttemptMade /\ connected' /\ firstConnection) =>
          /\ subCalls' = PatternsOf(handlers, 1)
          /\ ~firstConnection']_vars
  /\ [][(AttemptMade /\ connected' /\ ~firstConnection) =>
          /\ subCalls' = subscribedTopics
          /\ subscribedTopics' = subscribedTopics
          /\ ~firstConnection']_vars
  /\ [][(AttemptMade /\ ~connected') =>
          /\ subCalls' = <<>>
          /\ firstConnection' = firstConnection
          /\ subscribedTopics' = subscribedTopics]_vars
  /\ [](Range(subscribedTopics) = everOk)
  /\ [](Cardinality(Range(subscribedTopics)) = Len(subscribedTopics))

\* A reconnection has just subscribed again the one topic whose
\* subscription had succeeded, while the handler table holds another
\* pattern as well.
C15_Witness ==
  /\ attemptKind = "again"
  /\ connected
  /\ subCalls = subscribedTopics
  /\ Len(subCalls) = 1
  /\ Range(PatternsOf(handlers, 1)) = HandlerPatterns

\* The connection with unsubscribe() among the calls made on it.
UnsubNext ==
  \/ RegisterStep
  \/ UnregisterStep
  \/ ReconnectCall
  \/ SubscribeCall
  \/ UnsubscribeCall
  \/ ConnectionLost

InitUnsub ==
  MatchInit /\ DispInit /\ StreamInit /\ UploadInit /\ EngineInit /\ ModeInit
  /\ LinkInit /\ AuxInit

SpecUnsub == InitUnsub /\ [][UnsubNext]_vars

\* C37: a reconnection that is not the first connection asks the broker
\* for no topic whose last successful subscribe or unsubscribe call was an
\* unsubscribe.
C37_UnsubscribedStaysOff ==
  [][(AttemptMade /\ connected' /\ ~firstConnection) =>
       Range(subCalls') \cap unsubscribed = {}]_vars

(***************************************************************************)
(* MQTTManager::loop() under the clock: mqttTask calls loop() again and    *)
(* again while time passes and the connection comes and goes.              *)
(***************************************************************************)

\* One time unit passes.
Tick ==
  /\ millisNow' = (millisNow + 1) % MillisWrap
  /\ sinceAttempt' = IF sinceAttempt = -1 THEN -1
                     ELSE IF sinceAttempt >= SinceCap THEN SinceCap
                     ELSE sinceAttempt + 1
  /\ UNCHANGED <<notLink, connVars, connObs>>

\* MQTTManager::loop(): not connected, a connect attempt when the backoff
\* test passes; connected, client->loop().
mqttLoop(connectOk, rets) ==
  /\ loopSeq' = 1 - loopSeq
  /\ IF ~connected /\ AttemptDue(millisNow, lastReconnectAttempt)
     THEN /\ lastReconnectAttempt' = millisNow
          /\ reconnect(connectOk, rets)
     ELSE UNCHANGED <<connVars, sinceAttempt, attemptSeq, attemptGap,
                      attemptKind, subCalls, everOk, unsubscribed>>
  /\ UNCHANGED <<notLink, millisNow>>

LoopCall == \E connectOk \in BOOLEAN, rets \in [1..MaxHandlers -> BOOLEAN] :
              mqttLoop(connectOk, rets)

LoopNext ==
  \/ Tick
  \/ LoopCall
  \/ SubscribeCall
  \/ ConnectionLost

InitLoop ==
  MatchInit /\ DispInit /\ StreamInit /\ UploadInit /\ EngineInit /\ ModeInit
  /\ LinkInit /\ AuxInit

SpecLoop == InitLoop /\ [][LoopNext]_vars

\* A step in which loop() is called.
LoopCalled == loopSeq' # loopSeq

\* C16: a connect attempt of loop() that is not the first is made more than
\* the backoff interval after the attempt before it; no attempt is made
\* while the client is connected; and whenever loop() is called with the
\* client not connected and more than the interval (and less than one
\* wrap of millis()) since the last attempt, it makes an attempt, whatever
\* the outcome of the attempts before.
C16_BackoffBetweenAttempts ==
  /\ [](attemptGap = -1 \/ attemptGap > BackoffInterval)
  /\ [][AttemptMade => ~connected]_vars
  /\ [][(/\ LoopCalled
         /\ ~connected
         /\ sinceAttempt > BackoffInterval
         /\ sinceAttempt < MillisWrap) => AttemptMade]_vars

\* loop() has retried, after an attempt that failed, one time unit after
\* the interval had passed, with millis() wrapped in between, and the
\* retry connected.
C16_Witness ==
  /\ attemptKind = "first"
  /\ connected
  /\ attemptGap = BackoffInterval + 1
  /\ millisNow < BackoffInterval

(***************************************************************************)
(* Streaming actions.  The producer (websocketTask), the consumer          *)
(* (audioDecodeTask) and the caller of startStreaming / stopStreaming run  *)
(* in different tasks; a step is one stream-buffer call or one access to   *)
(* an AudioManager field.  stopStreaming takes no lock: its wait in        *)
(* i2s_write and each of the two writes that follow are steps of their own.*)
(***************************************************************************)

\* AudioManager::begin() succeeding (called from setup()).
AudioBegin ==
  /\ ~initialized
  /\ initialized' = TRUE
  /\ UNCHANGED <<notStream, currentState, opusDecoder, prerollComplete, streamBuf,
                 prodVars, consVars, obsVars>>

\* The space check with the header left out of the required space.
PushCheckPayloadOnly(frame) ==
  /\ ppc = "idle"
  /\ LET availableSpace == SpacesAvailable(streamBuf)
         requiredSpace == Len(frame)
     IN IF availableSpace < requiredSpace
        THEN ppc' = "idle" /\ pFrame' = <<>> /\ pushResult' = "dropped"
        ELSE ppc' = "hdr" /\ pFrame' = frame /\ UNCHANGED pushResult
  /\ pWritten' = 0
  /\ pushSeq' = 1 - pushSeq
  /\ pStale' = FALSE
  /\ UNCHANGED <<notStream, audioVars, streamBuf, consVars, obsVars>>

\* webSocketEvent, WStype_BIN: the space check.  A frame that does not fit
\* is dropped and the handler returns.
PushCheck(frame) ==
  /\ ppc = "idle"
  /\ LET availableSpace == SpacesAvailable(streamBuf)
         requiredSpace == PACKET_HEADER_SIZE + Len(frame)
     IN IF availableSpace < requiredSpace
        THEN ppc' = "idle" /\ pFrame' = <<>> /\ pushResult' = "dropped"
        ELSE ppc' = "hdr" /\ pFrame' = frame /\ UNCHANGED pushResult
  /\ pWritten' = 0
  /\ pushSeq' = 1 - pushSeq
  /\ pStale' = FALSE
  /\ UNCHANGED <<notStream, audioVars, streamBuf, consVars, obsVars>>

\* webSocketEvent: xStreamBufferSend of the 2-byte length header.
PushHeader ==
  /\ ppc = "hdr"
  /\ LET total == PACKET_HEADER_SIZE + Len(pFrame)
         hdr == HeaderBytes(Len(pFrame) % 65536)
         written == SendCount(streamBuf, PACKET_HEADER_SIZE)
     IN /\ streamBuf' = streamBuf \o
             Tagged(SubSeq(hdr, 1, written), 0, total, FALSE)
        /\ IF written # PACKET_HEADER_SIZE
           THEN /\ ppc' = "idle"
                /\ pFrame' = <<>>
                /\ pWritten' = 0
                /\ pushResult' = IF written = 0 THEN "dropped" ELSE "partial"
           ELSE /\ ppc' = "payload"
                /\ pWritten' = written
                /\ UNCHANGED <<pFrame, pushResult>>
  /\ pStale' = FALSE
  /\ UNCHANGED <<notStream, audioVars, consVars, obsVars, pushSeq>>

\* webSocketEvent: xStreamBufferSend of the payload, then return.  A frame
\* stored whole is an accepted push.
PushPayload ==
  /\ ppc = "payload"
  /\ LET total == PACKET_HEADER_SIZE + Len(pFrame)
         written == SendCount(streamBuf, Len(pFrame))
     IN /\ streamBuf' = streamBuf \o
             Tagged(SubSeq(pFrame, 1, written), PACKET_HEADER_SIZE, total,
                    pStale)
        /\ pushResult' = IF pWritten + written = total
                         THEN "stored" ELSE "partial"
        /\ pending' = IF written = Len(pFrame) /\ fifoOk
                      THEN Append(pending, pFrame) ELSE pending
  /\ ppc' = "idle"
  /\ pFrame' = <<>>
  /\ pWritten' = 0
  /\ pStale' = FALSE
  /\ UNCHANGED <<notStream, audioVars, consVars, fifoOk, gateSeen, earlyUse,
                 pushSeq>>

\* AudioManager::startStreaming(); createOk is whether opus_decoder_create
\* succeeds.  (Not initialized: returns false, nothing changes.)  A file
\* that is playing is stopped first.
StartStreaming(createOk) ==
  /\ initialized
  /\ IF isPlaying THEN Cleanup ELSE UNCHANGED playbackVars
  /\ opusDecoder' = IF createOk THEN "decoder" ELSE "null"
  /\ IF createOk
     THEN /\ streamBuf' = <<>>
          /\ currentState' = "STREAMING"
          /\ prerollComplete' = FALSE
          /\ gateSeen' = FALSE
          /\ pending' = <<>>
          /\ pStale' = (ppc = "payload")
          /\ i2sRate' = STREAM_SAMPLE_RATE
     ELSE UNCHANGED <<streamBuf, currentState, prerollComplete, gateSeen,
                      pending, pStale, i2sRate>>
  /\ UNCHANGED <<notAudio, modeObs, initialized, pushVars, consVars, fifoOk,
                 earlyUse, stpc>>

\* AudioManager::stopStreaming() past its entry test, up to its i2s_write
\* of the silence buffer: cleanupStreaming() destroys the decoder and the
\* bus goes back to the file-playback rate.  The write waits with
\* portMAX_DELAY; the other tasks run meanwhile.
StopStreamingBody ==
  /\ opusDecoder' = "null"
  /\ i2sRate' = FILE_SAMPLE_RATE
  /\ stpc' = "write"
  /\ UNCHANGED <<notAudio, playbackVars, modeObs, initialized, currentState,
                 prerollComplete, streamBuf, prodVars, consVars, obsVars>>

\* AudioManager::stopStreaming(), its i2s_write has returned:
\* currentState = AUDIO_STATE_IDLE.  The session that was streaming, if
\* any, is over.
StopStreamingReturn ==
  /\ stpc = "write"
  /\ stpc' = "clear"
  /\ currentState' = "IDLE"
  /\ gateSeen' = FALSE
  /\ UNCHANGED <<notAudio, playbackVars, modeObs, initialized, opusDecoder,
                 prerollComplete, streamBuf, prodVars, consVars, pending,
                 fifoOk, earlyUse, i2sRate>>

\* AudioManager::stopStreaming(), its last write: prerollComplete = false,
\* whatever the other tasks have done since the write of currentState.
StopStreamingClear ==
  /\ stpc = "clear"
  /\ stpc' = "idle"
  /\ prerollComplete' = FALSE
  /\ UNCHANGED <<notAudio, playbackVars, modeObs, initialized, currentState,
                 opusDecoder, streamBuf, prodVars, consVars, obsVars, i2sRate>>

\* AudioManager::stopStreaming() called while streaming (otherwise it
\* returns at once); one such call at a time.
StopStreaming ==
  /\ stpc = "idle"
  /\ currentState = "STREAMING"
  /\ StopStreamingBody

\* AudioManager::end() of the streaming build: cleanup(), the output is
\* deleted and initialized cleared; the mode and the stream decoder stay
\* as they are.
end ==
  /\ Cleanup
  /\ initialized' = FALSE
  /\ UNCHANGED <<notAudio, currentState, opusDecoder, prerollComplete,
                 streamBuf, prodVars, consVars, obsVars, modeObs, busVars,
                 callObs>>

\* audioDecodeTask: isStreaming() holds and processStreamingAudio passes
\* its entry test (streaming, decoder present).
ConsumerEnter ==
  /\ cpc = "idle"
  /\ currentState = "STREAMING"
  /\ opusDecoder # "null"
  /\ cpc' = "gate"
  /\ UNCHANGED <<notStream, audioVars, streamBuf, prodVars, packetLength,
                 opusPacketBuffer, lastOut, obsVars>>

\* audioDecodeTask: isStreaming() holds and processStreamingAudio returns
\* from its entry test because there is no decoder; nothing is written.
ConsumerSkip ==
  /\ cpc = "idle"
  /\ currentState = "STREAMING"
  /\ opusDecoder = "null"
  /\ lastOut' = "none"
  /\ UNCHANGED <<notStream, audioVars, streamBuf, prodVars, cpc, packetLength,
                 opusPacketBuffer, obsVars>>

\* processStreamingAudio: the pre-roll test.  Below the threshold: silence
\* and return.
ConsumerGate ==
  /\ cpc = "gate"
  /\ IF prerollComplete
     THEN cpc' = "hdr" /\ UNCHANGED <<lastOut, gateSeen>>
     ELSE IF BytesAvailable(streamBuf) < PREROLL_MIN_BYTES
     THEN cpc' = "idle" /\ lastOut' = "silence" /\ UNCHANGED gateSeen
     ELSE cpc' = "setgate" /\ gateSeen' = TRUE /\ UNCHANGED lastOut
  /\ UNCHANGED <<notStream, audioVars, streamBuf, prodVars, packetLength,
                 opusPacketBuffer, pending, fifoOk, earlyUse>>

\* processStreamingAudio: prerollComplete = true
ConsumerSetGate ==
  /\ cpc = "setgate"
  /\ prerollComplete' = TRUE
  /\ cpc' = "hdr"
  /\ UNCHANGED <<notStream, initialized, currentState, opusDecoder, streamBuf, prodVars,
                 packetLength, opusPacketBuffer, lastOut, obsVars>>

\* A length test without the upper bound.
ValidLengthNonZero(len) == len # 0

\* The length test of processStreamingAudio, as the condition under which
\* the payload is read.
ValidLength(len) == ~(len = 0 \/ len > MaxOpusPacketSize)

\* processStreamingAudio, step 1: receive the header, validate the length.
ConsumerReadHeader ==
  /\ cpc = "hdr"
  /\ LET received == ReceiveCount(streamBuf, PACKET_HEADER_SIZE)
         len == IF received = PACKET_HEADER_SIZE
                THEN HeaderValue(streamBuf[1].b, streamBuf[2].b) ELSE 0
         valid == /\ received = PACKET_HEADER_SIZE
                  /\ ValidLength(len)
     IN /\ streamBuf' = SubSeq(streamBuf, received + 1, Len(streamBuf))
        /\ IF valid
           THEN /\ cpc' = "payload"
                /\ packetLength' = len
                /\ UNCHANGED <<lastOut, pending, fifoOk>>
           ELSE /\ cpc' = "idle"
                /\ packetLength' = 0
                /\ lastOut' = "silence"
                /\ fifoOk' = (fifoOk /\ received = 0)
                /\ pending' = IF received = 0 THEN pending ELSE <<>>
        /\ earlyUse' = (earlyUse \/ (/\ received > 0
                                      /\ currentState = "STREAMING"
                                      /\ ~gateSeen))
  /\ UNCHANGED <<notStream, audioVars, prodVars, opusPacketBuffer, gateSeen>>

\* processStreamingAudio, step 2: receive packetLength payload bytes.
ConsumerReadPayload ==
  /\ cpc = "payload"
  /\ LET received == ReceiveCount(streamBuf, packetLength)
         bytes == Values(SubSeq(streamBuf, 1, received))
         obtained == received = packetLength
         inOrder == pending # <<>> /\ Head(pending) = bytes
     IN /\ streamBuf' = SubSeq(streamBuf, received + 1, Len(streamBuf))
        /\ IF obtained
           THEN /\ cpc' = "decode"
                /\ opusPacketBuffer' = bytes
                /\ UNCHANGED <<lastOut, packetLength>>
           ELSE /\ cpc' = "idle"
                /\ opusPacketBuffer' = <<>>
                /\ packetLength' = 0
                /\ lastOut' = "silence"
        /\ fifoOk' = (fifoOk /\ obtained /\ inOrder)
        /\ pending' = IF fifoOk /\ obtained /\ inOrder
                      THEN Tail(pending) ELSE <<>>
        /\ earlyUse' = (earlyUse \/ (/\ received > 0
                                      /\ currentState = "STREAMING"
                                      /\ ~gateSeen))
  /\ UNCHANGED <<notStream, audioVars, prodVars, gateSeen>>

\* processStreamingAudio, steps 3 and 4: opus_decode and the I2S write;
\* decodeOk is whether opus_decode returns a sample count.
ConsumerDecode(decodeOk) ==
  /\ cpc = "decode"
  /\ lastOut' = IF decodeOk THEN "pcm" ELSE "silence"
  /\ earlyUse' = (earlyUse \/ (/\ decodeOk
                                /\ currentState = "STREAMING"
                                /\ ~gateSeen))
  /\ cpc' = "idle"
  /\ packetLength' = 0
  /\ opusPacketBuffer' = <<>>
  /\ UNCHANGED <<notStream, audioVars, streamBuf, prodVars, pending, fifoOk, gateSeen>>

Push == \E f \in Frames : PushCheck(f)
Start == \E ok \in BOOLEAN : StartStreaming(ok) /\ UNCHANGED callObs
Stop == StopStreaming /\ UNCHANGED callObs
StopReturn == StopStreamingReturn /\ UNCHANGED callObs
StopClear == StopStreamingClear /\ UNCHANGED callObs
Decode == \E ok \in BOOLEAN : ConsumerDecode(ok)

StreamNext ==
  \/ AudioBegin
  \/ Push
  \/ PushHeader
  \/ PushPayload
  \/ Start
  \/ Stop
  \/ StopReturn
  \/ StopClear
  \/ end
  \/ ConsumerEnter
  \/ ConsumerSkip
  \/ ConsumerGate
  \/ ConsumerSetGate
  \/ ConsumerReadHeader
  \/ ConsumerReadPayload
  \/ Decode

InitStream ==
  MatchInit /\ DispInit /\ StreamInit /\ UploadInit /\ EngineInit /\ ModeInit
  /\ LinkInit /\ AuxInit

SpecStream == InitStream /\ [][StreamNext]_vars

\* C3: the packets the consumer obtains are the accepted pushes, in push
\* order and unmodified: every consumer read takes the oldest accepted
\* packet whole, and no buffered byte is discarded or re-interpreted.
C3_FifoIntact == fifoOk

\* Every buffered byte that is not the last byte of its push is directly
\* followed by the next byte of the same push.
TailComplete(buf) ==
  \A i \in 1..Len(buf) :
    buf[i].rem > 0 => (i < Len(buf) /\ buf[i + 1].rem = buf[i].rem - 1)

\* A step in which the handler is entered and returns with the frame
\* dropped.
ProducerDrops ==
  /\ pushSeq' # pushSeq
  /\ pushResult' = "dropped"

\* C4: a push is all-or-nothing.  A push never ends with part of its bytes
\* written; once the space check has passed the header and the whole
\* payload fit; a producer step that drops a frame leaves the buffer as it
\* was; and when no push is in progress no buffered header or payload byte
\* lacks the rest of its packet.
C4_PushAllOrNothing ==
  /\ [](pushResult # "partial")
  /\ [](ppc = "hdr" =>
        SpacesAvailable(streamBuf) >= PACKET_HEADER_SIZE + Len(pFrame))
  /\ [](ppc = "payload" => SpacesAvailable(streamBuf) >= Len(pFrame))
  /\ [](ppc = "idle" => TailComplete(streamBuf))
  /\ [][ProducerDrops => streamBuf' = streamBuf]_vars

\* A frame has been dropped although its header alone would have fitted,
\* behind packets stored whole.
C4_Witness ==
  /\ ppc = "idle"
  /\ pushResult = "dropped"
  /\ streamBuf # <<>>
  /\ SpacesAvailable(streamBuf) >= PACKET_HEADER_SIZE
  /\ SpacesAvailable(streamBuf) < PACKET_HEADER_SIZE + MaxFrameLen

\* C5: within a streaming session the consumer takes nothing from the
\* buffer and decodes no packet before a pre-roll test of that session has
\* seen at least PREROLL_MIN_BYTES buffered.
C5_PrerollGate == ~earlyUse

\* A step in which processStreamingAudio returns after writing silence.
SilenceWritten ==
  /\ cpc # "idle"
  /\ cpc' = "idle"
  /\ lastOut' = "silence"

\* C18: within a session the pre-roll test passes, and the gate is then
\* set, at most once; the gate goes back to false only in a step of
\* startStreaming, which begins a new session, or with the session over
\* (the mode no longer streaming), never in a step of stopStreaming that
\* leaves the session active; and with the gate true,
\* processStreamingAudio passes the pre-roll test whatever the fill level
\* and returns silence only when the header cannot be read whole, the
\* length is invalid, the payload cannot be read whole, or the decoder
\* fails.
C18_GateOneShot ==
  /\ [][(cpc = "gate" /\ cpc' = "setgate") => ~gateSeen]_vars
  /\ [][(prerollComplete /\ ~prerollComplete') =>
          (stpc' = stpc \/ currentState' # "STREAMING")]_vars
  /\ [][(cpc = "gate" /\ cpc' # "gate" /\ prerollComplete) =>
          (cpc' = "hdr" /\ lastOut' = lastOut)]_vars
  /\ [][(SilenceWritten /\ prerollComplete) =>
          \/ /\ cpc = "hdr"
             /\ \/ ReceiveCount(streamBuf, PACKET_HEADER_SIZE)
                     # PACKET_HEADER_SIZE
                \/ HeaderValue(streamBuf[1].b, streamBuf[2].b) = 0
                \/ HeaderValue(streamBuf[1].b, streamBuf[2].b)
                     > MaxOpusPacketSize
          \/ /\ cpc = "payload"
             /\ ReceiveCount(streamBuf, packetLength) # packetLength
          \/ cpc = "decode"]_vars

\* A step in which the consumer takes bytes from the buffer.
ConsumerTakes ==
  /\ cpc \in {"hdr", "payload"}
  /\ cpc' # cpc
  /\ Len(streamBuf') < Len(streamBuf)

\* C19: after a reset the consumer takes only bytes of pushes that wrote
\* their header after the reset: no byte it takes was written by a push
\* whose header went into the buffer before the reset.
C19_ResetClean ==
  [][ConsumerTakes =>
       \A i \in 1..(Len(streamBuf) - Len(streamBuf')) :
         ~streamBuf[i].stale]_vars

\* C20: when processStreamingAudio has read a whole header, it goes on to
\* the payload read exactly when 0 < length <= MAX_OPUS_PACKET_SIZE and
\* otherwise returns after writing silence, taking nothing more from the
\* buffer; the payload read asks for that length, and neither the bytes it
\* takes nor the content of opusPacketBuffer exceed MAX_OPUS_PACKET_SIZE.
C20_PayloadLengthChecked ==
  /\ [][(/\ cpc = "hdr"
          /\ cpc' # "hdr"
          /\ ReceiveCount(streamBuf, PACKET_HEADER_SIZE) = PACKET_HEADER_SIZE)
         => LET len == HeaderValue(streamBuf[1].b, streamBuf[2].b)
            IN IF 0 < len /\ len <= MaxOpusPacketSize
               THEN cpc' = "payload" /\ packetLength' = len
               ELSE /\ cpc' = "idle"
                    /\ lastOut' = "silence"
                    /\ opusPacketBuffer' = opusPacketBuffer
                    /\ streamBuf' = SubSeq(streamBuf, PACKET_HEADER_SIZE + 1,
                                           Len(streamBuf))]_vars
  /\ [][(cpc = "payload" /\ cpc' # "payload")
         => /\ 0 < packetLength
            /\ packetLength <= MaxOpusPacketSize
            /\ Len(streamBuf) - Len(streamBuf') <= packetLength]_vars
  /\ [](Len(opusPacketBuffer) <= MaxOpusPacketSize)

\* The consumer, having played a packet in an earlier call, is about to
\* read a whole header whose value is above MAX_OPUS_PACKET_SIZE.
C20_Witness ==
  /\ cpc = "hdr"
  /\ lastOut = "pcm"
  /\ ReceiveCount(streamBuf, PACKET_HEADER_SIZE) = PACKET_HEADER_SIZE
  /\ HeaderValue(streamBuf[1].b, streamBuf[2].b) > MaxOpusPacketSize

\* C22: every header the consumer reads is the two header bytes of one
\* push, and every byte string it hands to the decoder is the whole payload
\* of one push: it starts at the first payload byte, ends at the last byte
\* of the push, and runs through consecutive bytes of it.
C22_WholePacketsOnly ==
  /\ [][(/\ cpc = "hdr"
          /\ cpc' # "hdr"
          /\ ReceiveCount(streamBuf, PACKET_HEADER_SIZE) = PACKET_HEADER_SIZE)
         => /\ streamBuf[1].off = 0
            /\ streamBuf[2].off = 1
            /\ streamBuf[1].rem = streamBuf[2].rem + 1]_vars
  /\ [][(cpc = "payload" /\ cpc' = "decode")
         => /\ streamBuf[1].off = PACKET_HEADER_SIZE
            /\ streamBuf[packetLength].rem = 0
            /\ \A i \in 1..(packetLength - 1) :
                 /\ streamBuf[i + 1].off = streamBuf[i].off + 1
                 /\ streamBuf[i + 1].rem = streamBuf[i].rem - 1]_vars

\* C23: every call of processStreamingAudio made in streaming mode has
\* written a frame, silence or PCM, when it returns: a step in which a call
\* returns (the consumer leaves its position in the function, or a call
\* made in streaming mode replaces the record of the last call) records one
\* of the two.
C23_FramePerCall ==
  [][(/\ cpc' = "idle"
      /\ \/ cpc # "idle"
         \/ currentState = "STREAMING" /\ lastOut' # lastOut)
     => lastOut' \in {"silence", "pcm"}]_vars

\* C21: the producer stores a header only for a frame of at most
\* MAX_OPUS_PACKET_SIZE bytes, the header it stores is the frame's length,
\* and the payload send that follows stores exactly that many bytes.
C21_StoredLengthValid ==
  /\ [][(ppc = "hdr" /\ ppc' = "payload")
         => /\ Len(pFrame) <= MaxOpusPacketSize
            /\ Len(streamBuf') = Len(streamBuf) + PACKET_HEADER_SIZE
            /\ HeaderValue(streamBuf'[Len(streamBuf) + 1].b,
                           streamBuf'[Len(streamBuf) + 2].b)
                 = Len(pFrame)]_vars
  /\ [][(ppc = "payload" /\ ppc' = "idle")
         => Len(streamBuf') = Len(streamBuf) + Len(pFrame)]_vars

(***************************************************************************)
(* Audio modes of the streaming build: the calls begin, end, playFile,     *)
(* stop, playing, startStreaming and stopStreaming in any order, with the  *)
(* audio-decode task in loop().  No method takes a lock.  A call of the    *)
(* control task is one step, except stopStreaming, which waits in its      *)
(* i2s_write and then makes its two last writes while the other tasks run; *)
(* loop() is a step per statement that reads or writes the playback        *)
(* fields.  The mode field is currentState (AudioState); the file decoder  *)
(* is mp3, the stream decoder opusDecoder.                                 *)
(***************************************************************************)

\* AudioManager::playMP3(filename); beginOk is what mp3->begin returns.
\* Uninitialized, it returns false and creates nothing.
playMP3(beginOk) ==
  IF ~initialized
  THEN /\ playResult' = "false"
       /\ playLog' = "not initialized"
       /\ UNCHANGED playbackVars
  ELSE IF beginOk
  THEN /\ file' = "set"
       /\ id3' = "set"
       /\ mp3' = "running"
       /\ isPlaying' = TRUE
       /\ playResult' = "true"
       /\ playLog' = "playing"
  ELSE /\ Cleanup
       /\ playResult' = "false"
       /\ playLog' = "begin failed"

\* What playFile reports when it gives up on the file itself.
PlayFileLog(filename, exists) ==
  IF ~exists THEN "not found" ELSE "unsupported"

\* A playFile that tests the file before it stops what is playing.
playFileTestsFirst(filename, exists, beginOk) ==
  /\ playSeq' = 1 - playSeq
  /\ playWas' = isPlaying
  /\ IF ~initialized
     THEN /\ playResult' = "false"
          /\ playLog' = "not initialized"
          /\ UNCHANGED playbackVars
     ELSE IF ~exists \/ ~EndsWith(ToLowerCase(filename), MP3_EXT)
     THEN /\ playResult' = "false"
          /\ playLog' = PlayFileLog(filename, exists)
          /\ UNCHANGED playbackVars
     ELSE playMP3(beginOk)
  /\ UNCHANGED <<notAudio, streamVars, busVars, callObs>>

\* AudioManager::playFile(filename); exists is LittleFS.exists(filename).
\* stop() comes before the tests of the file.
playFile(filename, exists, beginOk) ==
  /\ playSeq' = 1 - playSeq
  /\ playWas' = isPlaying
  /\ IF ~initialized
     THEN /\ playResult' = "false"
          /\ playLog' = "not initialized"
          /\ UNCHANGED playbackVars
     ELSE IF ~exists \/ ~EndsWith(ToLowerCase(filename), MP3_EXT)
     THEN /\ Cleanup
          /\ playResult' = "false"
          /\ playLog' = PlayFileLog(filename, exists)
     ELSE playMP3(beginOk)
  /\ UNCHANGED <<notAudio, streamVars, busVars, callObs>>

\* AudioManager::stop(): cleanup(), no write to the bus.
stop ==
  /\ callSeq' = 1 - callSeq
  /\ callOp' = "stop"
  /\ callResult' = "none"
  /\ callFrames' = <<>>
  /\ Cleanup
  /\ UNCHANGED <<notAudio, streamVars, modeObs, busVars>>

\* Everything but the record of the last call.
notCall == <<matchVars, dispVars, streamVars, uploadVars, engineVars, modeObs,
             linkVars, busVars, auxVars>>

\* AudioManager::startStreaming(), the whole method; it writes nothing to
\* the bus.
startStreaming(createOk) ==
  /\ callSeq' = 1 - callSeq
  /\ callOp' = "startStreaming"
  /\ callFrames' = <<>>
  /\ IF ~initialized
     THEN callResult' = "false" /\ UNCHANGED notCall
     ELSE /\ StartStreaming(createOk)
          /\ callResult' = IF createOk THEN "true" ELSE "false"

\* AudioManager::stopStreaming() up to its return, or to its wait in
\* i2s_write: not streaming, it returns at once and has written nothing.
stopStreaming ==
  /\ stpc = "idle"
  /\ IF currentState # "STREAMING"
     THEN /\ callSeq' = 1 - callSeq
          /\ callOp' = "stopStreaming"
          /\ callResult' = "none"
          /\ callFrames' = <<>>
          /\ UNCHANGED notCall
     ELSE StopStreamingBody /\ UNCHANGED callObs

\* AudioManager::stopStreaming(): the silence frame is written and the
\* mode is set to idle.
stopStreamingReturn ==
  /\ StopStreamingReturn
  /\ UNCHANGED callObs

\* AudioManager::stopStreaming(): the gate is cleared and the call
\* returns, having written one silence frame.
stopStreamingClear ==
  /\ StopStreamingClear
  /\ callSeq' = 1 - callSeq
  /\ callOp' = "stopStreaming"
  /\ callResult' = "none"
  /\ callFrames' = <<"silence">>

\* What loop() of the streaming build leaves alone.
notFileLoop == <<matchVars, dispVars, streamVars, uploadVars,
                 audioInitialized, out, outGain, currentVolume, mutexVars,
                 waited, lastLoop, mp3More, ctlVars, lastStatus, accessTask,
                 accessHolder, modeObs, linkVars, busVars, callObs,
                 auxVars>>

\* audioDecodeTask calls audio.loop() when not streaming: the entry test
\* and the test of mp3 && mp3->isRunning().
FileLoopEnter ==
  /\ dpc = "delay"
  /\ currentState # "STREAMING"
  /\ IF ~initialized \/ ~isPlaying
     THEN UNCHANGED <<isPlaying, dpc>>
     ELSE IF mp3 = "running"
     THEN dpc' = "decode" /\ UNCHANGED isPlaying
     ELSE isPlaying' = FALSE /\ UNCHANGED dpc
  /\ UNCHANGED <<file, id3, mp3, useAfterDelete, notFileLoop>>

\* loop(): mp3->loop(); more is its return value.  A decoder that returns
\* false has stopped running.
FileLoopDecode(more) ==
  /\ dpc = "decode"
  /\ useAfterDelete' = (useAfterDelete \/ mp3 = "null")
  /\ IF more
     THEN dpc' = "delay" /\ UNCHANGED mp3
     ELSE /\ dpc' = "cleanup"
          /\ mp3' = IF mp3 = "null" THEN "null" ELSE "stopped"
  /\ UNCHANGED <<file, id3, isPlaying, notFileLoop>>

\* loop(): cleanup() after the decoder has finished.
FileLoopCleanup ==
  /\ dpc = "cleanup"
  /\ Cleanup
  /\ dpc' = "delay"
  /\ UNCHANGED <<useAfterDelete, notFileLoop>>

\* AudioManager::playing() of the streaming build.
playing ==
  /\ callSeq' = 1 - callSeq
  /\ callOp' = "playing"
  /\ callFrames' = <<>>
  /\ IF ~initialized \/ ~isPlaying
     THEN callResult' = "false" /\ UNCHANGED isPlaying
     ELSE IF mp3 = "running"
     THEN callResult' = "true" /\ UNCHANGED isPlaying
     ELSE isPlaying' = FALSE /\ callResult' = "false"
  /\ UNCHANGED <<notAudio, streamVars, modeObs, busVars, file, id3, mp3>>

FileDecode == \E more \in BOOLEAN : FileLoopDecode(more)

Play == \E f \in PlayNames, exists, beginOk \in BOOLEAN :
          playFile(f, exists, beginOk)
StartCall == \E ok \in BOOLEAN : startStreaming(ok)

\* C11: the file decoder and the stream decoder never exist at the same
\* time.
C11_OneDecoder == ~(mp3 # "null" /\ opusDecoder # "null")

\* A call of playFile that returns true.
PlayFileStarts ==
  /\ playSeq' # playSeq
  /\ playResult' = "true"

\* C12: a change of mode passes through Idle: a playFile that starts
\* playback leaves the engine out of streaming mode with the stream decoder
\* torn down, and a step that enters streaming mode leaves no file decoder.
C12_ModeChangesThroughIdle ==
  /\ [][PlayFileStarts =>
          (currentState' # "STREAMING" /\ opusDecoder' = "null")]_vars
  /\ [][(currentState # "STREAMING" /\ currentState' = "STREAMING") =>
          (mp3' = "null" /\ ~isPlaying')]_vars

\* C13: whenever a decoder exists the mode is not Idle.
C13_DecoderImpliesNotIdle ==
  (mp3 # "null" \/ opusDecoder # "null") => currentState # "IDLE"

\* The calls of the control task in any order, and the steps of loop() on
\* the audio-decode task; a call of stopStreaming() overlaps the calls
\* made while it waits in its i2s_write and between its last two writes.
PlayNext ==
  \/ AudioBegin
  \/ StartCall
  \/ stopStreaming
  \/ stopStreamingReturn
  \/ stopStreamingClear
  \/ end
  \/ Play
  \/ stop
  \/ playing
  \/ FileLoopEnter
  \/ FileDecode
  \/ FileLoopCleanup

InitPlay ==
  MatchInit /\ DispInit /\ StreamInit /\ UploadInit /\ EngineInit /\ ModeInit
  /\ LinkInit /\ AuxInit

SpecPlay == InitPlay /\ [][PlayNext]_vars

\* A playFile call gave up because the file does not exist or its name
\* does not end in .mp3.
PlayFileRefused ==
  /\ playSeq' # playSeq
  /\ playLog' \in {"not found", "unsupported"}

\* A playFile refused because the file does not exist or has an unsupported
\* extension returns false and leaves the audio session as it was before
\* the call.
C39_RefusedPlayKeepsSession ==
  [][PlayFileRefused =>
       /\ playResult' = "false"
       /\ UNCHANGED <<playbackVars, streamVars, busVars>>]_vars

\* C39: a playFile refused because the file does not exist or has an
\* unsupported extension returns false and leaves no file playing: the file
\* decoder, its source and its demuxer are gone and isPlaying is false,
\* whatever was playing before; the streaming side and the bus are as they
\* were.
C39_RefusedPlayStopsPlayback ==
  [][PlayFileRefused =>
       /\ playResult' = "false"
       /\ mp3' = "null" /\ id3' = "null" /\ file' = "null"
       /\ ~isPlaying'
       /\ UNCHANGED <<streamVars, busVars>>]_vars

\* A file was playing when playFile was called with a name that does not
\* end in .mp3; the call returned false and nothing plays.
C39_Witness ==
  /\ playLog = "unsupported"
  /\ playWas
  /\ playResult = "false"
  /\ ~isPlaying
  /\ mp3 = "null"

\* C38: whenever the engine is in streaming mode the stream decoder
\* exists.
C38_StreamingHasDecoder ==
  currentState = "STREAMING" => opusDecoder # "null"

\* A step in which the named method is called.
StartStreamingCalled == callSeq' # callSeq /\ callOp' = "startStreaming"
StopStreamingCalled == callSeq' # callSeq /\ callOp' = "stopStreaming"
StopCalled == callSeq' # callSeq /\ callOp' = "stop"

\* C24: a startStreaming that returns true leaves the bus at the streaming
\* rate, the jitter buffer empty, the pre-roll gate cleared and the mode
\* streaming; a stopStreaming called in streaming mode (one that passed
\* its entry test) leaves, when it returns, the bus at the file-playback
\* rate, has written one silence frame and nothing else, and leaves no
\* stream decoder and the mode idle.
C24_StartStopLeaveBus ==
  /\ [][(StartStreamingCalled /\ callResult' = "true")
         => /\ i2sRate' = STREAM_SAMPLE_RATE
            /\ streamBuf' = <<>>
            /\ ~prerollComplete'
            /\ currentState' = "STREAMING"]_vars
  /\ [][(StopStreamingCalled /\ stpc = "clear")
         => /\ i2sRate' = FILE_SAMPLE_RATE
            /\ callFrames' = <<"silence">>
            /\ opusDecoder' = "null"
            /\ currentState' = "IDLE"]_vars

\* C30: stop() called with no file playing and stopStreaming() called while
\* not streaming change no audio state, write no frame to the bus and
\* publish nothing; stop() always ends with no file playing and
\* stopStreaming() with the session not streaming, so a second call in a
\* row finds that case and leaves the state of the first.
C30_StopIdempotent ==
  [][/\ ((StopCalled /\ ~isPlaying)
         \/ (StopStreamingCalled /\ stpc = "idle"
             /\ currentState # "STREAMING"))
        => /\ UNCHANGED <<streamVars, playbackVars, engineFields, busVars,
                          published>>
           /\ callFrames' = <<>>
     /\ StopCalled => ~isPlaying'
     /\ StopStreamingCalled => currentState' # "STREAMING"]_vars

(***************************************************************************)
(* File playback of the streaming build alone: the audio-decode task in    *)
(* AudioManager::loop() while the control task calls playFile, stop and    *)
(* playing.                                                                *)
(***************************************************************************)

QueryNext ==
  \/ AudioBegin
  \/ end
  \/ Play
  \/ stop
  \/ playing
  \/ FileLoopEnter
  \/ FileDecode
  \/ FileLoopCleanup

InitQuery ==
  MatchInit /\ DispInit /\ StreamInit /\ UploadInit /\ EngineInit /\ ModeInit
  /\ LinkInit /\ AuxInit

SpecQuery == InitQuery /\ [][QueryNext]_vars

\* A call of playing().
PlayingCalled == callSeq' # callSeq /\ callOp' = "playing"

\* C31: playing() returns true exactly when a file is playing and the
\* decoder reports that it is running, and a call leaves every field of
\* the audio session as it was.
C31_PlayingPureQuery ==
  [][PlayingCalled
     => /\ callResult' = BoolStr(initialized /\ isPlaying /\ mp3 = "running")
        /\ UNCHANGED <<audioVars, playbackVars, busVars>>]_vars

\* What a call of the handler that changes nothing leaves alone.
UploadUntouched ==
  UNCHANGED <<sdFile, bytesSinceFlush, files, xferVars, upObs>>

\* handleAudioChunk, START branch; openOk is whether SD.open succeeds.  The
\* sizes of the messages modelled are non-negative and far below the range
\* of size_t.
StartBranch(payload, openOk) ==
  LET num == SubSeq(payload, 7, Len(payload))
      colonPos == IndexOf(num, ":", 0)
      size == IF colonPos # -1
              THEN Atoi(Substring(num, 0, colonPos))
              ELSE Atoi(num)
      name == IF colonPos # -1
              THEN <<"/sound_">> \o Substring(num, colonPos + 1, Len(num))
                     \o <<".mp3">>
              ELSE <<"/uploaded.mp3">>
      removed == [files EXCEPT ![name] = NoFile]
  IN /\ expectedSize' = size
     /\ recvFilename' = name
     /\ receivedSize' = 0
     /\ IF openOk
        THEN /\ files' = [removed EXCEPT ![name] = <<>>]
             /\ sdFile' = name
             /\ bytesSinceFlush' = 0
             /\ receivingFile' = TRUE
             /\ lastChunkTime' = millisNow
             /\ upStatus' = "receiving"
        ELSE /\ files' = removed
             /\ sdFile' = NoFile
             /\ receivingFile' = FALSE
             /\ upStatus' = "open-failed"
             /\ UNCHANGED <<bytesSinceFlush, lastChunkTime>>
     /\ published' = <<>>
     /\ okChunks' = <<>>

\* A CHUNK branch that goes on receiving after a failed write.
ChunkBodyNoAbort(payload, colons, cardAccepts) ==
  LET chunkIndex == parseNumberFromPayload(payload, 6, colons[1])
      headerLen == colons[2] + 1
      rawLen == Len(payload) - headerLen
      data == SubSeq(payload, headerLen + 1, Len(payload))
      room == IF sdFile = NoFile THEN 0 ELSE DiskBytes - Len(files[sdFile])
      written == Min(rawLen, Min(cardAccepts, room))
      success == sdFile # NoFile /\ written = rawLen
  IN IF rawLen > 0
     THEN /\ files' = IF sdFile = NoFile THEN files
                      ELSE [files EXCEPT
                              ![sdFile] = @ \o SubSeq(data, 1, written)]
          /\ IF success
             THEN /\ bytesSinceFlush' =
                       IF bytesSinceFlush + written >= FlushEvery
                       THEN 0 ELSE bytesSinceFlush + written
                  /\ receivedSize' = receivedSize + rawLen
                  /\ published' = Published(published, "TOPIC_ACK",
                                            AckMessage(chunkIndex))
                  /\ okChunks' = Append(okChunks,
                       [field |-> SubSeq(payload, 7, colons[1]),
                        data |-> data, acked |-> connected])
                  /\ lastChunkTime' = millisNow
                  /\ UNCHANGED <<sdFile, receivingFile, upStatus>>
             ELSE /\ upStatus' = "write-failed"
                  /\ UNCHANGED <<sdFile, bytesSinceFlush, receivingFile,
                                 receivedSize, published, okChunks,
                                 lastChunkTime>>
          /\ UNCHANGED <<expectedSize, recvFilename>>
     ELSE UploadUntouched

\* handleAudioChunk, CHUNK branch after the header scan: the write, the
\* size update and the ACK.  cardAccepts bounds what File::write stores.
ChunkBody(payload, colons, cardAccepts) ==
  LET chunkIndex == parseNumberFromPayload(payload, 6, colons[1])
      headerLen == colons[2] + 1
      rawLen == Len(payload) - headerLen
      data == SubSeq(payload, headerLen + 1, Len(payload))
      room == IF sdFile = NoFile THEN 0 ELSE DiskBytes - Len(files[sdFile])
      written == Min(rawLen, Min(cardAccepts, room))
      success == sdFile # NoFile /\ written = rawLen
  IN IF rawLen > 0
     THEN /\ files' = IF sdFile = NoFile THEN files
                      ELSE [files EXCEPT
                              ![sdFile] = @ \o SubSeq(data, 1, written)]
          /\ IF success
             THEN /\ bytesSinceFlush' =
                       IF bytesSinceFlush + written >= FlushEvery
                       THEN 0 ELSE bytesSinceFlush + written
                  /\ receivedSize' = receivedSize + rawLen
                  /\ published' = Published(published, "TOPIC_ACK",
                                            AckMessage(chunkIndex))
                  /\ okChunks' = Append(okChunks,
                       [field |-> SubSeq(payload, 7, colons[1]),
                        data |-> data, acked |-> connected])
                  /\ lastChunkTime' = millisNow
                  /\ UNCHANGED <<sdFile, receivingFile, upStatus>>
             ELSE /\ sdFile' = NoFile
                  /\ bytesSinceFlush' = 0
                  /\ receivingFile' = FALSE
                  /\ upStatus' = "write-failed"
                  /\ UNCHANGED <<receivedSize, published, okChunks,
                                 lastChunkTime>>
          /\ UNCHANGED <<expectedSize, recvFilename>>
     ELSE UploadUntouched

\* The CHUNK branch without the test for a malformed header.
ChunkBranchNoColonTest(payload, cardAccepts) ==
  IF ~receivingFile THEN UploadUntouched
  ELSE ChunkBody(payload, ChunkColons(payload, 6, -1), cardAccepts)

\* handleAudioChunk, CHUNK branch.
ChunkBranch(payload, cardAccepts) ==
  IF ~receivingFile THEN UploadUntouched
  ELSE LET colons == ChunkColons(payload, 6, -1)
       IN IF colons[1] = -1 \/ colons[2] = -1
          THEN UploadUntouched
          ELSE ChunkBody(payload, colons, cardAccepts)

\* The handler returns result for payload.
Returned(payload, result) ==
  /\ hSeq' = 1 - hSeq
  /\ hpc' = "idle"
  /\ lastMsg' = payload
  /\ handled' = result
  /\ preReceiving' = receivingFile

\* SDManager::closeFile() with a file open, up to its delay(500): the file
\* is flushed and closed, the counter not yet reset.
CloseFileWait ==
  /\ sdFile' = NoFile
  /\ hpc' = "close"
  /\ UNCHANGED <<bytesSinceFlush, files, xferVars, upObs, hSeq, lastMsg,
                 handled, preReceiving>>

\* The END branch from the reset of the flush counter in closeFile() on.
EndFinish ==
  /\ bytesSinceFlush' = 0
  /\ receivingFile' = FALSE
  /\ published' = IF mqttManager # "null"
                  THEN Published(published, "TOPIC_RESPONSE", UPLOAD_COMPLETE)
                  ELSE published
  /\ upStatus' = "complete"
  /\ Returned(END_MSG, "true")
  /\ UNCHANGED <<sdFile, files, expectedSize, receivedSize, recvFilename,
                 okChunks, lastChunkTime>>

\* An END branch that finalizes without testing receivingFile.
EndBranchUntested ==
  IF sdFile # NoFile THEN CloseFileWait ELSE EndFinish

\* An END branch that finalizes only a transfer of the announced size.
EndBranchSizeChecked ==
  IF receivingFile /\ receivedSize = expectedSize
  THEN IF sdFile # NoFile THEN CloseFileWait ELSE EndFinish
  ELSE UploadUntouched /\ Returned(END_MSG, "true")

\* handleAudioChunk, END branch, up to the delay in closeFile() when a file
\* is open.
EndBranch ==
  IF receivingFile
  THEN IF sdFile # NoFile THEN CloseFileWait ELSE EndFinish
  ELSE UploadUntouched /\ Returned(END_MSG, "true")

\* AudioManager::handleAudioChunk(mqtt, payload, length), called by the
\* MQTT task when no call of it is in progress.
handleAudioChunk(payload, openOk, cardAccepts) ==
  /\ hpc = "idle"
  /\ IF ~sdReady
     THEN Returned(payload, "true") /\ UploadUntouched
     ELSE IF Len(payload) > 6 /\ HasPrefix(payload, START_PREFIX)
     THEN Returned(payload, "true") /\ StartBranch(payload, openOk)
     ELSE IF Len(payload) > 6 /\ HasPrefix(payload, CHUNK_PREFIX)
     THEN Returned(payload, "true") /\ ChunkBranch(payload, cardAccepts)
     ELSE IF Len(payload) = 3 /\ payload = END_MSG
     THEN EndBranch
     ELSE Returned(payload, "false") /\ UploadUntouched
  /\ UNCHANGED <<sdReady, mqttManager, notUpload>>

\* The delay in closeFile() is over: the END branch runs to its return.
EndReturn ==
  /\ hpc = "close"
  /\ EndFinish
  /\ UNCHANGED <<sdReady, mqttManager, notUpload>>

\* AudioManager::handleAudioRequest(mqtt, payload, length), called by the
\* MQTT task when no call of handleAudioChunk is in progress: the reply
\* FREE:<freeSpace>:<size of the current file> on the response topic.  The
\* SD manager is attached in setup() whether or not its begin succeeded;
\* not ready, exists() is false and the size reported is 0.  Any other
\* payload changes nothing.
handleAudioRequest(payload) ==
  /\ hpc = "idle"
  /\ IF Len(payload) = Len(REQUEST_FREE_SPACE) /\ payload = REQUEST_FREE_SPACE
     THEN LET exists == /\ sdReady
                        /\ recvFilename \in DOMAIN files
                        /\ files[recvFilename] # NoFile
              currentAudioSize == IF exists THEN Len(files[recvFilename])
                                  ELSE 0
              reply == FREE_PREFIX \o Decimal(FreeSpaceDummy) \o <<":">>
                         \o Decimal(currentAudioSize)
          IN published' = Published(published, "TOPIC_RESPONSE", reply)
     ELSE UNCHANGED published
  /\ UNCHANGED <<sdVars, mqttManager, xferVars, okChunks, upStatus, callVars,
                 notUpload>>

\* SDManager::begin succeeding and AudioManager::setSDManager.
SdBegin ==
  /\ ~sdReady
  /\ sdReady' = TRUE
  /\ UNCHANGED <<sdFile, bytesSinceFlush, files, mqttManager, xferVars,
                 upObs, callVars, notUpload>>

\* AudioManager::setMQTTManager(mqtt)
setMQTTManager ==
  /\ mqttManager = "null"
  /\ mqttManager' = "set"
  /\ UNCHANGED <<sdVars, xferVars, upObs, callVars, notUpload>>

StartMsg ==
  \E m \in UploadStarts, openOk \in BOOLEAN :
    handleAudioChunk(m, openOk, 0)

ChunkMsg ==
  \E m \in UploadChunks, cardAccepts \in WriteLimits :
    handleAudioChunk(m, TRUE, cardAccepts)

EndMsg == handleAudioChunk(END_MSG, TRUE, 0)

OtherMsg == \E m \in UploadOthers : handleAudioChunk(m, TRUE, 0)

\* The free-space replies handed to the client since the last START.
FreeCalls == SelectSeq(published, LAMBDA p : HasPrefix(p.msg, FREE_PREFIX))

RequestMsg ==
  /\ Len(FreeCalls) < MaxRequests
  /\ \E m \in RequestMsgs : handleAudioRequest(m)

UploadNext ==
  \/ SdBegin
  \/ setMQTTManager
  \/ ConnectionLost
  \/ StartMsg
  \/ ChunkMsg
  \/ EndMsg
  \/ EndReturn
  \/ OtherMsg
  \/ RequestMsg

\* The upload is followed from a connected client on: the handler runs
\* inside client->loop(), which MQTTManager::loop() calls while connected,
\* and the connection may be lost at any moment after that.
InitUpload ==
  MatchInit /\ DispInit /\ StreamInit /\ UploadInit /\ EngineInit /\ ModeInit
  /\ LinkUpInit /\ AuxInit

SpecUpload == InitUpload /\ [][UploadNext]_vars

\* The decimal number written by a sequence of digits.
RECURSIVE NumberOf(_)
NumberOf(digits) ==
  IF digits = <<>> THEN 0
  ELSE 10 * NumberOf(SubSeq(digits, 1, Len(digits) - 1))
         + DigitValue(digits[Len(digits)])

RECURSIVE Concat(_)
Concat(seqs) == IF seqs = <<>> THEN <<>> ELSE Head(seqs) \o Concat(Tail(seqs))

AckCalls == SelectSeq(published, LAMBDA p : p.topic = "TOPIC_ACK")

\* The written chunks that arrived while the client was connected.
AckedChunks == SelectSeq(okChunks, LAMBDA c : c.acked)

\* C6: since the last START, the ACK publishes are, one for one and in
\* order, the chunks whose payload was written: the k-th ACK carries the
\* number in the k-th written chunk's index field; and while the upload is
\* receiving or completed the stored file is the written payloads in order,
\* so its length is the sum of their lengths.
C6_AckPerWrittenChunk ==
  /\ Len(AckCalls) = Len(okChunks)
  /\ \A k \in 1..Len(okChunks) :
       AckCalls[k].msg = ACK_PREFIX \o Decimal(NumberOf(okChunks[k].field))
  /\ upStatus \in {"receiving", "complete"} =>
       /\ files[recvFilename] =
            Concat([k \in 1..Len(okChunks) |-> okChunks[k].data])
       /\ receivedSize = Len(files[recvFilename])

\* C6: since the last START, the ACKs handed to the client are, one for
\* one and in order, the written chunks that arrived while the client was
\* connected, each carrying the number in its chunk's index field; a chunk
\* written while the client is not connected is stored and counted without
\* an ACK; and while the upload is receiving or completed the stored file
\* is the written payloads in order, so its length is the sum of their
\* lengths.
C6_AckPerChunkWhileConnected ==
  /\ Len(AckCalls) = Len(AckedChunks)
  /\ \A k \in 1..Len(AckedChunks) :
       AckCalls[k].msg = ACK_PREFIX \o Decimal(NumberOf(AckedChunks[k].field))
  /\ upStatus \in {"receiving", "complete"} =>
       /\ files[recvFilename] =
            Concat([k \in 1..Len(okChunks) |-> okChunks[k].data])
       /\ receivedSize = Len(files[recvFilename])

\* START:3:u, CHUNK:0:2:a:, CHUNK:01:2:c, END with the client connected
\* throughout: two ACKs, indices 0 and 1 in order, and a stored file of
\* three bytes.
C6_Witness ==
  /\ upStatus = "complete"
  /\ [k \in 1..Len(AckCalls) |-> AckCalls[k].msg]
       = <<ACK_PREFIX \o <<"0">>, ACK_PREFIX \o <<"1">>>>
  /\ files[recvFilename] = <<"a", ":", "c">>
  /\ expectedSize = 3
  /\ connected

\* C7: receivedSize never exceeds expectedSize.
C7_ReceivedWithinExpected == receivedSize <= expectedSize

\* The message is a CHUNK message; its header lacks one of the two colons
\* that follow the CHUNK: prefix.
IsChunkMsg(m) == Len(m) > 6 /\ HasPrefix(m, CHUNK_PREFIX)
MalformedChunk(m) == Cardinality({i \in 7..Len(m) : m[i] = ":"}) < 2

\* A handler call for a CHUNK that arrives while not receiving or whose
\* header is malformed.
RejectedChunkCall ==
  /\ hSeq' # hSeq
  /\ IsChunkMsg(lastMsg')
  /\ ~receivingFile \/ MalformedChunk(lastMsg')

\* C8: such a call writes nothing to storage, leaves receivedSize,
\* expectedSize, the file name and the receiving status as they were, and
\* publishes nothing.
C8_RejectedChunkIgnored ==
  [][RejectedChunkCall =>
       UNCHANGED <<files, sdFile, bytesSinceFlush, receivedSize, expectedSize,
                   recvFilename, receivingFile, published>>]_vars

\* A chunk with a malformed header has just been handled in the middle of
\* an upload that has already stored a chunk.
C8_Witness ==
  /\ IsChunkMsg(lastMsg)
  /\ MalformedChunk(lastMsg)
  /\ preReceiving
  /\ receivingFile
  /\ okChunks # <<>>

(***************************************************************************)
(* Audio engine actions.                                                   *)
(***************************************************************************)

\* An access to the shared audio state by task, and the mutex owner then.
Access(task) ==
  /\ accessTask' = task
  /\ accessHolder' = audioMutexOwner

\* The status given to mqttManager->publish(TOPIC_STATUS, status), a call
\* made when mqttManager is set.
StatusAfter(status) == IF mqttManager # "null" THEN status ELSE lastStatus

\* xSemaphoreTakeRecursive succeeding for task
TakeRecursive(task) ==
  /\ audioMutexOwner \in {"none", task}
  /\ audioMutexOwner' = task
  /\ audioMutexCount' = audioMutexCount + 1

\* xSemaphoreGiveRecursive by the owner
GiveRecursive ==
  /\ audioMutexCount' = audioMutexCount - 1
  /\ audioMutexOwner' = IF audioMutexCount = 1 THEN "none" ELSE audioMutexOwner

\* AudioManager::begin(), called from setup()
EngineBegin ==
  /\ cpcCtl = "idle"
  /\ ~audioInitialized
  /\ out' = "set"
  /\ outGain' = currentVolume
  /\ audioInitialized' = TRUE
  /\ UNCHANGED <<file, id3, mp3, isPlaying, currentVolume, mutexVars,
                 decodeVars, ctlVars, lastStatus, accessVars, mqttManager,
                 notEngine>>

\* AudioManager::end()
EngineEnd ==
  /\ cpcCtl = "idle"
  /\ Cleanup
  /\ out' = "null"
  /\ audioInitialized' = FALSE
  /\ Access("control")
  /\ UNCHANGED <<outGain, currentVolume, mutexVars, decodeVars, ctlVars,
                 lastStatus, useAfterDelete, mqttManager, notEngine>>

\* AudioManager::setVolume(volume)
setVolume(volume) ==
  /\ cpcCtl = "idle"
  /\ currentVolume' = ConstrainFloat(volume, 0, 10)
  /\ outGain' = IF out # "null" THEN ConstrainFloat(volume, 0, 10)
                ELSE outGain
  /\ volArg' = volume
  /\ Access("control")
  /\ UNCHANGED <<audioInitialized, out, file, id3, mp3, isPlaying, mutexVars,
                 decodeVars, cpcCtl, ctlOp, ctlResult, lastStatus,
                 useAfterDelete, mqttManager, notEngine>>

\* playFile, playMP3, stop, playing: the blocking take at entry.
CtlTake(op) ==
  /\ cpcCtl = "idle"
  /\ TakeRecursive("control")
  /\ cpcCtl' = "locked"
  /\ ctlOp' = op
  /\ ctlResult' = "none"
  /\ UNCHANGED <<engineFields, decodeVars, volArg, lastStatus, accessVars,
                 mqttManager, notEngine>>

\* AudioManager::playMP3 after its take: beginOk is what mp3->begin returns.
PlayMP3Body(beginOk) ==
  IF beginOk
  THEN /\ file' = "set"
       /\ id3' = "set"
       /\ mp3' = "running"
       /\ isPlaying' = TRUE
       /\ lastStatus' = StatusAfter("playing")
       /\ ctlResult' = "true"
  ELSE /\ Cleanup
       /\ ctlResult' = "false"
       /\ UNCHANGED lastStatus

\* AudioManager::playFile after its take; its nested stop() and playMP3()
\* take and give the mutex again, which the caller already holds.
PlayFileBody(sdOk, exists, isMp3, beginOk) ==
  IF ~audioInitialized \/ ~sdOk
  THEN /\ ctlResult' = "false"
       /\ UNCHANGED <<file, id3, mp3, isPlaying, lastStatus>>
  ELSE IF ~exists \/ ~isMp3
  THEN /\ Cleanup
       /\ ctlResult' = "false"
       /\ UNCHANGED lastStatus
  ELSE PlayMP3Body(beginOk)

\* AudioManager::playing after its take
PlayingBody ==
  IF ~audioInitialized \/ ~isPlaying
  THEN /\ ctlResult' = "false"
       /\ UNCHANGED <<file, id3, mp3, isPlaying, lastStatus>>
  ELSE IF mp3 = "running"
  THEN /\ ctlResult' = "true"
       /\ UNCHANGED <<file, id3, mp3, isPlaying, lastStatus>>
  ELSE /\ isPlaying' = FALSE
       /\ ctlResult' = "false"
       /\ UNCHANGED <<file, id3, mp3, lastStatus>>

\* The takes and gives of stop(), in order.
StopOps == <<"take", "give">>

\* A playMP3 whose failure path returns without its give.
PlayMP3OpsNoGiveOnFailure(beginOk) ==
  IF beginOk THEN <<"take", "give">> ELSE <<"take">>

\* The takes and gives of playMP3(), in order, on each of its two return
\* paths.
PlayMP3Ops(beginOk) ==
  IF beginOk THEN <<"take", "give">> ELSE <<"take", "give">>

\* The takes and gives made between the take at the entry of the method op
\* and the give before its return: those of the calls nested in playFile
\* (stop(), then playMP3() when the file exists and is an .mp3); playMP3,
\* stop and playing call nothing that takes the mutex.
NestedOps(op, sdOk, exists, isMp3, beginOk) ==
  IF op # "playFile" THEN <<>>
  ELSE IF ~audioInitialized \/ ~sdOk THEN <<>>
  ELSE IF ~exists \/ ~isMp3 THEN StopOps
  ELSE StopOps \o PlayMP3Ops(beginOk)

\* The hold count of the owner after a sequence of recursive takes and
\* gives
RECURSIVE HoldAfter(_, _)
HoldAfter(count, ops) ==
  IF ops = <<>> THEN count
  ELSE HoldAfter(IF Head(ops) = "take" THEN count + 1 ELSE count - 1,
                 Tail(ops))

\* The body of the method the control task is in, up to its give.
CtlBody(sdOk, exists, isMp3, beginOk) ==
  /\ cpcCtl = "locked"
  /\ audioMutexOwner = "control"
  /\ audioMutexCount' =
       HoldAfter(audioMutexCount,
                 NestedOps(ctlOp, sdOk, exists, isMp3, beginOk))
  /\ CASE ctlOp = "playFile" -> PlayFileBody(sdOk, exists, isMp3, beginOk)
       [] ctlOp = "playMP3" -> PlayMP3Body(beginOk)
       [] ctlOp = "stop" -> (/\ Cleanup
                             /\ ctlResult' = "none"
                             /\ UNCHANGED lastStatus)
       [] ctlOp = "playing" -> PlayingBody
  /\ Access("control")
  /\ cpcCtl' = "give"
  /\ UNCHANGED <<audioInitialized, out, outGain, currentVolume,
                 audioMutexOwner, decodeVars, ctlOp, volArg, useAfterDelete,
                 mqttManager, notEngine>>

\* xSemaphoreGiveRecursive before the method returns
CtlGive ==
  /\ cpcCtl = "give"
  /\ GiveRecursive
  /\ cpcCtl' = "idle"
  /\ ctlOp' = "none"
  /\ UNCHANGED <<engineFields, decodeVars, ctlResult, volArg, lastStatus,
                 accessVars, mqttManager, notEngine>>

\* audioDecodeTask: audio.loop() after the delay; the mutex is obtained at
\* once or the task starts to wait for it.
LoopTake ==
  /\ dpc = "delay"
  /\ IF audioMutexOwner \in {"none", "decode"}
     THEN TakeRecursive("decode") /\ dpc' = "test"
     ELSE dpc' = "wait" /\ UNCHANGED mutexVars
  /\ waited' = 0
  /\ UNCHANGED <<engineFields, lastLoop, mp3More, ctlVars, lastStatus,
                 accessVars, mqttManager, notEngine>>

\* The mutex is given while the task waits: the take returns pdTRUE.
LoopAcquire ==
  /\ dpc = "wait"
  /\ TakeRecursive("decode")
  /\ dpc' = "test"
  /\ waited' = 0
  /\ UNCHANGED <<engineFields, lastLoop, mp3More, ctlVars, lastStatus,
                 accessVars, mqttManager, notEngine>>

\* A tick passes while the task waits, with a take that never times out.
LoopWaitTickForever ==
  /\ dpc = "wait"
  /\ waited < LoopTakeTicks
  /\ waited' = waited + 1
  /\ UNCHANGED <<engineFields, mutexVars, dpc, lastLoop, mp3More, ctlVars,
                 lastStatus, accessVars, mqttManager, notEngine>>

\* A tick passes while the task waits; at the fifth the take returns
\* pdFALSE, loop() returns and the task goes to its delay.
LoopWaitTick ==
  /\ dpc = "wait"
  /\ IF waited + 1 >= LoopTakeTicks
     THEN dpc' = "delay" /\ waited' = 0 /\ lastLoop' = "skipped"
     ELSE waited' = waited + 1 /\ UNCHANGED <<dpc, lastLoop>>
  /\ UNCHANGED <<engineFields, mutexVars, mp3More, ctlVars, lastStatus,
                 accessVars, mqttManager, notEngine>>

\* loop(): initialized && isPlaying && mp3 && mp3->isRunning()
LoopTest ==
  /\ dpc = "test"
  /\ IF audioInitialized /\ isPlaying /\ mp3 = "running"
     THEN dpc' = "decode" /\ UNCHANGED isPlaying
     ELSE dpc' = "give" /\ isPlaying' = FALSE
  /\ Access("decode")
  /\ UNCHANGED <<audioInitialized, out, outGain, file, id3, mp3,
                 currentVolume, mutexVars, waited, lastLoop, mp3More, ctlVars,
                 lastStatus, useAfterDelete, mqttManager, notEngine>>

\* A loop() that leaves the decoder in place at the end of the file.
LoopDecodeNoCleanup(more) ==
  /\ dpc = "decode"
  /\ useAfterDelete' = (useAfterDelete \/ mp3 = "null")
  /\ IF more
     THEN UNCHANGED <<file, id3, mp3, isPlaying, lastStatus>>
     ELSE /\ isPlaying' = FALSE
          /\ lastStatus' = StatusAfter("finished")
          /\ UNCHANGED <<file, id3, mp3>>
  /\ Access("decode")
  /\ dpc' = "give"
  /\ mp3More' = IF more THEN "true" ELSE "false"
  /\ UNCHANGED <<audioInitialized, out, outGain, currentVolume, mutexVars,
                 waited, lastLoop, ctlVars, mqttManager, notEngine>>

\* loop(): mp3->loop(); more is its return value.  At the end of the file
\* cleanup() and the 'finished' status.
LoopDecode(more) ==
  /\ dpc = "decode"
  /\ useAfterDelete' = (useAfterDelete \/ mp3 = "null")
  /\ IF more
     THEN UNCHANGED <<file, id3, mp3, isPlaying, lastStatus>>
     ELSE Cleanup /\ lastStatus' = StatusAfter("finished")
  /\ Access("decode")
  /\ dpc' = "give"
  /\ mp3More' = IF more THEN "true" ELSE "false"
  /\ UNCHANGED <<audioInitialized, out, outGain, currentVolume, mutexVars,
                 waited, lastLoop, ctlVars, mqttManager, notEngine>>

\* loop(): the give, then vTaskDelay in audioDecodeTask
LoopGive ==
  /\ dpc = "give"
  /\ GiveRecursive
  /\ dpc' = "delay"
  /\ lastLoop' = "ran"
  /\ mp3More' = "none"
  /\ UNCHANGED <<engineFields, waited, ctlVars, lastStatus, accessVars,
                 mqttManager, notEngine>>

CtlCall == \E op \in {"playFile", "playMP3", "stop", "playing"} : CtlTake(op)
CtlRun == \E sdOk, exists, isMp3, beginOk \in BOOLEAN :
            CtlBody(sdOk, exists, isMp3, beginOk)
SetVolumeCall == \E v \in VolumeInputs : setVolume(v)
Decode1 == \E more \in BOOLEAN : LoopDecode(more)

EngineNext ==
  \/ EngineBegin
  \/ EngineEnd
  \/ setMQTTManager
  \/ SetVolumeCall
  \/ CtlCall
  \/ CtlRun
  \/ CtlGive
  \/ LoopTake
  \/ LoopAcquire
  \/ LoopWaitTick
  \/ LoopTest
  \/ Decode1
  \/ LoopGive

InitEngine ==
  MatchInit /\ DispInit /\ StreamInit /\ UploadInit /\ EngineInit /\ ModeInit
  /\ LinkInit /\ AuxInit

SpecEngine == InitEngine /\ [][EngineNext]_vars

\* The control task is inside playFile, playMP3, stop or playing, between
\* the take at entry and the return.
ControlInside == cpcCtl \in {"locked", "give"}

\* The decode task is inside loop() with the mutex taken.
DecodeInside == dpc \in {"test", "decode", "give"}

\* C40: every method gives the mutex as often as it took it: a task that is
\* in none of the methods does not own the mutex, and nobody owns it when
\* no task is in one; the hold count is zero exactly when the mutex is
\* free, and when a method has finished its body, nested calls included,
\* and is about to give, the count is the one its own take produced.
C40_TakesAndGivesBalance ==
  /\ ~ControlInside => audioMutexOwner # "control"
  /\ ~DecodeInside => audioMutexOwner # "decode"
  /\ (audioMutexOwner = "none") <=> (audioMutexCount = 0)
  /\ (ControlInside \/ DecodeInside) => audioMutexCount = 1

\* playFile has run its nested stop() and playMP3(), which started the
\* file, and is about to give; the decode task waits for the mutex.
C40_Witness ==
  /\ cpcCtl = "give"
  /\ ctlOp = "playFile"
  /\ ctlResult = "true"
  /\ isPlaying
  /\ audioMutexOwner = "control"
  /\ audioMutexCount = 1
  /\ dpc = "wait"

\* min(max(v, 0.0), 1.0), in tenths.
ClampUnit(v) == IF v < 0 THEN 0 ELSE IF v > 10 THEN 10 ELSE v

\* C32: the stored volume is min(max(v, 0.0), 1.0) of the argument v of the
\* last setVolume call, whatever the mode and whether or not the output
\* exists; it lies within [0, 1] in every reachable state; with the output
\* present the gain follows it; and setVolume can be called whoever holds
\* audioMutex.
C32_VolumeClamped ==
  /\ currentVolume = ClampUnit(volArg)
  /\ currentVolume \in 0..10
  /\ cpcCtl = "idle" => ENABLED SetVolumeCall

\* C9: every access to mp3, id3, file, isPlaying and the volume is made by
\* a task that holds audioMutex at that moment, and the audio-decode task
\* never calls into a decoder that has been deleted.
C9_AccessUnderMutex ==
  /\ accessTask = accessHolder
  /\ ~useAfterDelete

\* C10: a waiting loop() has waited fewer than five ticks; the body of loop()
\* runs only with the mutex held by the audio-decode task; and the step in
\* which the wait expires returns the task to its delay with the audio
\* state and the mutex untouched.
C10_LoopBoundedWait ==
  /\ [](dpc = "wait" => waited < LoopTakeTicks)
  /\ [](dpc \in {"test", "decode", "give"} => audioMutexOwner = "decode")
  /\ [][(dpc = "wait" /\ dpc' = "delay") =>
          /\ lastLoop' = "skipped"
          /\ UNCHANGED <<engineFields, mutexVars, lastStatus, accessVars>>]_vars

\* loop() has just skipped an iteration because the control task has held
\* the mutex for five ticks in the middle of a method, during playback.
C10_Witness ==
  /\ lastLoop = "skipped"
  /\ dpc = "delay"
  /\ audioMutexOwner = "control"
  /\ cpcCtl = "locked"
  /\ isPlaying

(***************************************************************************)
(* begin() of the SD build: AudioManager::begin() mounts the card itself   *)
(* with a retry loop, SDManager::begin(maxRetries) tries two bus speeds    *)
(* per attempt.  Both run in setup(), before the tasks exist, so a call is *)
(* one step; rets gives what each SD.begin call would return.              *)
(***************************************************************************)
MaxAttempts == 3      \* stands for maxAttempts = 10 of AudioManager::begin
MaxRetries == 2       \* largest maxRetries given to SDManager::begin

\* AudioManager::begin: while (!SD.begin(...) && attempts < maxAttempts).
\* k is the SD.begin call being made; the result is attempts at the exit
\* and the number of calls made.
RECURSIVE AudioMountLoop(_, _, _)
AudioMountLoop(attempts, k, rets) ==
  IF rets[k] THEN [attempts |-> attempts, calls |-> k]
  ELSE IF attempts < MaxAttempts
  THEN AudioMountLoop(attempts + 1, k + 1, rets)
  ELSE [attempts |-> attempts, calls |-> k]

\* SDManager::begin: for (attempt = 0; attempt < maxRetries; attempt++)
\* with a mount at 4 MHz and one at 1 MHz.
RECURSIVE SdMountLoop(_, _, _)
SdMountLoop(attempt, maxRetries, rets) ==
  IF attempt >= maxRetries
  THEN [ready |-> FALSE, calls |-> 2 * attempt]
  ELSE IF rets[2 * attempt + 1]
  THEN [ready |-> TRUE, calls |-> 2 * attempt + 1]
  ELSE IF rets[2 * attempt + 2]
  THEN [ready |-> TRUE, calls |-> 2 * attempt + 2]
  ELSE SdMountLoop(attempt + 1, maxRetries, rets)

\* What begin() and playFile of the SD build leave alone.
notBegin == <<matchVars, dispVars, streamVars, sdFile, bytesSinceFlush, files,
              mqttManager, xferVars, upObs, callVars, mutexVars, decodeVars,
              cpcCtl, ctlOp, volArg, accessVars, currentVolume, playResult,
              playLog, playWas,
              linkVars, busVars, callObs, downloadVars, sensorVars,
              senderDone>>

\* AudioManager::begin() of the SD build.
audioBegin(rets) ==
  /\ cpcCtl = "idle"
  /\ beginOp' = "AudioManager"
  /\ IF audioInitialized
     THEN /\ beginResult' = "true"
          /\ mountCalls' = <<>>
          /\ UNCHANGED <<audioInitialized, out, outGain>>
     ELSE LET r == AudioMountLoop(0, 1, rets)
          IN /\ mountCalls' = SubSeq(rets, 1, r.calls)
             /\ IF r.attempts >= MaxAttempts
                THEN /\ beginResult' = "false"
                     /\ UNCHANGED <<audioInitialized, out, outGain>>
                ELSE /\ out' = "set"
                     /\ outGain' = currentVolume
                     /\ audioInitialized' = TRUE
                     /\ beginResult' = "true"
  /\ UNCHANGED <<file, id3, mp3, isPlaying, ctlResult, lastStatus, sdReady,
                 playSeq, notBegin>>

\* SDManager::begin(maxRetries).
sdBegin(maxRetries, rets) ==
  /\ beginOp' = "SDManager"
  /\ IF sdReady
     THEN /\ beginResult' = "true"
          /\ mountCalls' = <<>>
          /\ UNCHANGED sdReady
     ELSE LET r == SdMountLoop(0, maxRetries, rets)
          IN /\ mountCalls' = SubSeq(rets, 1, r.calls)
             /\ sdReady' = r.ready
             /\ beginResult' = BoolStr(r.ready)
  /\ UNCHANGED <<engineFields, ctlResult, lastStatus, playSeq, notBegin>>

\* AudioManager::playFile of the SD build, one call: the test of
\* initialized, stop(), SD.exists, the extension, playMP3.
playFileSd(exists, isMp3, beginOk) ==
  /\ cpcCtl = "idle"
  /\ playSeq' = 1 - playSeq
  /\ PlayFileBody(TRUE, exists, isMp3, beginOk)
  /\ UNCHANGED <<audioInitialized, out, outGain, sdReady, beginObs,
                 notBegin>>

AudioBeginCall == \E rets \in [1..MaxAttempts + 1 -> BOOLEAN] : audioBegin(rets)
SdBeginCall ==
  \E maxRetries \in 0..MaxRetries, rets \in [1..2 * MaxRetries -> BOOLEAN] :
    sdBegin(maxRetries, rets)
PlayRequest == \E exists, isMp3, beginOk \in BOOLEAN :
                 playFileSd(exists, isMp3, beginOk)

BeginNext ==
  \/ AudioBeginCall
  \/ SdBeginCall
  \/ PlayRequest
  \/ EngineEnd
  \/ setMQTTManager

InitBegin ==
  MatchInit /\ DispInit /\ StreamInit /\ UploadInit /\ EngineInit /\ ModeInit
  /\ LinkInit /\ AuxInit

SpecBegin == InitBegin /\ [][BeginNext]_vars

\* A mount attempt of the last begin() succeeded.
MountSucceeded == \E k \in 1..Len(mountCalls) : mountCalls[k]

\* C34: begin() returns true exactly when one of its mount attempts
\* succeeded, the last one made included (a begin() that finds the
\* subsystem initialized makes no attempt and returns true); it makes a
\* bounded number of attempts; after AudioManager::begin() returned false
\* the subsystem is uninitialized, and a play request made while it is
\* uninitialized returns false and changes nothing.
C34_BeginTruthful ==
  [][/\ (mountCalls' # <<>> \/ beginResult' = "false")
        => (beginResult' = "true" <=> MountSucceeded')
     /\ Len(mountCalls') <= 2 * MaxAttempts
     /\ (beginOp' = "AudioManager" /\ beginResult' = "false")
        => ~audioInitialized'
     /\ (playSeq' # playSeq /\ ~audioInitialized)
        => ctlResult' = "false" /\ UNCHANGED engineFields]_vars

(***************************************************************************)
(* HTTP download and the sensor task.  downloadFile runs on the MQTT task; *)
(* sensorTask, on the other core, tests isDownloading() and then publishes *)
(* on the same MQTT client.  No lock covers the test and the publish.      *)
(***************************************************************************)
MaxDownload == 2      \* bytes of the largest download
DlName == <<"/sound_", "u", ".mp3">>

\* What downloadFile and sensorTask leave alone.
notDl == <<matchVars, dispVars, streamVars, mqttManager, xferVars, upObs,
           callVars, engineVars, modeObs, linkVars, busVars, callObs,
           beginObs, senderDone>>

\* downloadFile: the test of the SD manager; then http.begin and GET.
DlEnter ==
  /\ dlpc = "idle"
  /\ IF ~sdReady
     THEN dlResult' = "false" /\ UNCHANGED dlpc
     ELSE dlResult' = "none" /\ dlpc' = "http"
  /\ UNCHANGED <<downloadingInProgress, dlLen, totalBytes, sdVars,
                 sensorVars, notDl>>

\* downloadFile after GET returned: the HTTP code, openForWrite, malloc,
\* len = http.getSize(), and downloadingInProgress = true.  When malloc
\* fails the file is closed and the call waits in closeFile's delay.
DlOpen(httpOk, openOk, mallocOk, size) ==
  /\ dlpc = "http"
  /\ IF ~httpOk
     THEN /\ dlResult' = "false"
          /\ dlpc' = "idle"
          /\ UNCHANGED <<downloadingInProgress, dlLen, totalBytes, sdFile,
                         bytesSinceFlush, files>>
     ELSE IF ~openOk
     THEN /\ files' = [files EXCEPT ![DlName] = NoFile]
          /\ sdFile' = NoFile
          /\ dlResult' = "false"
          /\ dlpc' = "idle"
          /\ UNCHANGED <<downloadingInProgress, dlLen, totalBytes,
                         bytesSinceFlush>>
     ELSE IF ~mallocOk
     THEN /\ files' = [files EXCEPT ![DlName] = <<>>]
          /\ sdFile' = NoFile
          /\ bytesSinceFlush' = 0
          /\ dlpc' = "closefail"
          /\ UNCHANGED <<downloadingInProgress, dlLen, totalBytes, dlResult>>
     ELSE /\ files' = [files EXCEPT ![DlName] = <<>>]
          /\ sdFile' = DlName
          /\ bytesSinceFlush' = 0
          /\ dlLen' = size
          /\ totalBytes' = 0
          /\ downloadingInProgress' = TRUE
          /\ dlpc' = "loop"
          /\ UNCHANGED dlResult
  /\ UNCHANGED <<sdReady, sensorVars, notDl>>

\* downloadFile after the delay of the closeFile that follows a failed
\* malloc: _bytesSinceFlush = 0, http.end, return false.
DlOpenFailed ==
  /\ dlpc = "closefail"
  /\ bytesSinceFlush' = 0
  /\ dlResult' = "false"
  /\ dlpc' = "idle"
  /\ UNCHANGED <<downloadingInProgress, dlLen, totalBytes, sdFile, files,
                 sdReady, sensorVars, notDl>>

\* The closeFile that ends the download, up to its delay: the file is
\* flushed and closed; the flag and the flush counter are as they were.
DlCloseWait ==
  /\ sdFile' = NoFile
  /\ dlpc' = "close"
  /\ UNCHANGED <<bytesSinceFlush, downloadingInProgress, dlResult, files,
                 dlLen, totalBytes>>

\* The end of downloadFile, after closeFile's delay: _bytesSinceFlush = 0,
\* http.end, the flag cleared, and the test of totalBytes.
DlFinish ==
  /\ bytesSinceFlush' = 0
  /\ downloadingInProgress' = FALSE
  /\ dlResult' = IF totalBytes = 0 THEN "false" ELSE "true"
  /\ dlpc' = "idle"
  /\ UNCHANGED <<sdFile, files, dlLen, totalBytes>>

\* The delay of the cleanup's closeFile is over.
DlCloseReturn ==
  /\ dlpc = "close"
  /\ DlFinish
  /\ UNCHANGED <<sdReady, sensorVars, notDl>>

\* downloadFile: one test of the while condition and one pass of the
\* body; c bytes are available and read, written is what File::write
\* stores of them.  A short write closes the file in writeChunk, so the
\* closeFile that follows has nothing to close and does not wait; the
\* closeFile of the cleanup waits when it has a file to close.
DlLoop(isConnected, c, written) ==
  /\ dlpc = "loop"
  /\ IF ~(isConnected /\ (dlLen > 0 \/ dlLen = -1))
     THEN IF sdFile # NoFile THEN DlCloseWait ELSE DlFinish
     ELSE IF c = 0
     THEN UNCHANGED <<downloadVars, sdFile, bytesSinceFlush, files>>
     ELSE IF written # c
     THEN /\ files' = [files EXCEPT ![DlName] = @ \o [k \in 1..written |-> "d"]]
          /\ sdFile' = NoFile
          /\ bytesSinceFlush' = 0
          /\ downloadingInProgress' = FALSE
          /\ dlResult' = "false"
          /\ dlpc' = "idle"
          /\ UNCHANGED <<dlLen, totalBytes>>
     ELSE /\ files' = [files EXCEPT ![DlName] = @ \o [k \in 1..c |-> "d"]]
          /\ bytesSinceFlush' = IF bytesSinceFlush + c >= FlushEvery
                                THEN 0 ELSE bytesSinceFlush + c
          /\ dlLen' = IF dlLen > 0 THEN dlLen - c ELSE dlLen
          /\ totalBytes' = totalBytes + c
          /\ UNCHANGED <<sdFile, downloadingInProgress, dlResult, dlpc>>
  /\ UNCHANGED <<sdReady, sensorVars, notDl>>

\* sensorTask, publish branch: if (audio.isDownloading()) skip; with
\* isDownloading() returning downloadingInProgress.
SensorCheckDownload ==
  /\ spc = "wait"
  /\ spc' = IF downloadingInProgress THEN "wait" ELSE "publish"
  /\ UNCHANGED <<sensorPublishes, downloadVars, sdVars, notDl>>

\* sensorTask: publishToMQTT and publishRemoteSensorData.
SensorPublish ==
  /\ spc = "publish"
  /\ spc' = "wait"
  /\ sensorPublishes' = 1 - sensorPublishes
  /\ UNCHANGED <<downloadVars, sdVars, notDl>>

DlOpenStep ==
  \E httpOk, openOk, mallocOk \in BOOLEAN, size \in -1..MaxDownload :
    DlOpen(httpOk, openOk, mallocOk, size)
DlLoopStep ==
  \E isConnected \in BOOLEAN :
    \E c \in 0..Min(1, MaxDownload - totalBytes) :
      \E written \in 0..Min(c, DiskBytes - Len(files[DlName])) :
        DlLoop(isConnected, c, written)

SensorNext ==
  \/ SdBegin
  \/ DlEnter
  \/ DlOpenStep
  \/ DlLoopStep
  \/ DlOpenFailed
  \/ DlCloseReturn
  \/ SensorCheckDownload
  \/ SensorPublish

InitSensor ==
  MatchInit /\ DispInit /\ StreamInit /\ UploadInit /\ EngineInit /\ ModeInit
  /\ LinkInit /\ AuxInit

SpecSensor == InitSensor /\ [][SensorNext]_vars

\* C35: the sensor task makes no publish while a download is in progress,
\* however its test of isDownloading() and its publish interleave with the
\* start of a download.
C35_NoPublishDuringDownload ==
  [][sensorPublishes' # sensorPublishes => ~downloadingInProgress]_vars

(***************************************************************************)
(* An upload whose sender goes away.  Messages arrive until the sender     *)
(* stops; time passes and the sensor task keeps running, with              *)
(* isDownloading() returning receivingFile.  Time, the sensor task and the *)
(* end of the delay in closeFile() get weak fairness: the tick interrupt   *)
(* and the task's vTaskDelay loop always run again, and delay(500)         *)
(* returns.                                                                *)
(***************************************************************************)
QuietStartMsg == START_PREFIX \o <<"2">>
QuietChunkMsg == CHUNK_PREFIX \o <<"0", "1", ":", "2", ":", "c">>

\* A message of the sender arrives.
SenderStart ==
  /\ ~senderDone
  /\ \E openOk \in BOOLEAN : handleAudioChunk(QuietStartMsg, openOk, 0)
SenderChunk ==
  /\ ~senderDone
  /\ \E cardAccepts \in WriteLimits :
       handleAudioChunk(QuietChunkMsg, TRUE, cardAccepts)
SenderEnd ==
  /\ ~senderDone
  /\ handleAudioChunk(END_MSG, TRUE, 0)

\* The sender stops for good.
SenderStops ==
  /\ ~senderDone
  /\ senderDone' = TRUE
  /\ UNCHANGED <<matchVars, dispVars, streamVars, uploadVars, engineVars,
                 modeObs, linkVars, busVars, callObs, beginObs, downloadVars,
                 sensorVars>>

\* sensorTask, publish branch, with isDownloading() returning
\* receivingFile.
SensorCheckUpload ==
  /\ spc = "wait"
  /\ spc' = IF receivingFile THEN "wait" ELSE "publish"
  /\ UNCHANGED <<sensorPublishes, downloadVars, sdVars, notDl>>

QuietNext ==
  \/ SdBegin
  \/ SenderStart
  \/ SenderChunk
  \/ SenderEnd
  \/ EndReturn
  \/ SenderStops
  \/ Tick
  \/ SensorCheckUpload
  \/ SensorPublish

InitQuiet ==
  MatchInit /\ DispInit /\ StreamInit /\ UploadInit /\ EngineInit /\ ModeInit
  /\ LinkInit /\ AuxInit

SpecQuiet ==
  /\ InitQuiet
  /\ [][QuietNext]_vars
  /\ WF_vars(Tick)
  /\ WF_vars(SensorCheckUpload)
  /\ WF_vars(SensorPublish)
  /\ WF_vars(EndReturn)

\* C36: an upload that is receiving when its sender has stopped eventually
\* leaves the receiving state, and the sensor task eventually gets to
\* publish again.
C36_StalledUploadTimesOut ==
  /\ (senderDone /\ receivingFile) ~> ~receivingFile
  /\ (senderDone /\ receivingFile) ~> (spc = "publish")

\* A handler call for a START message whose destination cannot be opened.
IsStartMsg(m) == Len(m) > 6 /\ HasPrefix(m, START_PREFIX)
FailedStartCall ==
  /\ hSeq' # hSeq
  /\ sdReady
  /\ IsStartMsg(lastMsg')
  /\ upStatus' = "open-failed"

\* C26: a START whose destination cannot be opened leaves the transfer not
\* receiving and has published a message reporting the failure.
C26_OpenFailureReported ==
  [][FailedStartCall => (~receivingFile' /\ published' # <<>>)]_vars

\* A handler call for END, with the card ready.
EndCall ==
  /\ hSeq' # hSeq
  /\ sdReady
  /\ lastMsg' = END_MSG

\* C27: an END that arrives while receiving closes the destination and
\* leaves the transfer not receiving, whatever receivedSize and expectedSize
\* are, and with a manager attached its last publish is UPLOAD_COMPLETE on
\* the response topic; the stored file and the two sizes stay as they were.
C27_EndAlwaysFinalizes ==
  [][(EndCall /\ receivingFile)
     => /\ sdFile' = NoFile
        /\ ~receivingFile'
        /\ UNCHANGED <<files, receivedSize, expectedSize>>
        /\ mqttManager # "null" =>
             /\ Len(published') = Len(published) + 1
             /\ published'[Len(published')].topic = "TOPIC_RESPONSE"
             /\ published'[Len(published')].msg = UPLOAD_COMPLETE]_vars

\* C27: an END that arrives while receiving closes the destination and
\* leaves the transfer not receiving, whatever receivedSize and expectedSize
\* are, with the stored file and the two sizes as they were; when the
\* handler returns, after the cool-down of closeFile(), UPLOAD_COMPLETE on
\* the response topic has been handed to the client if a manager is
\* attached and the client is connected at that moment, and nothing has
\* been published otherwise.
C27_EndFinalizesPublishesIfConnected ==
  [][(EndCall /\ receivingFile)
     => /\ sdFile' = NoFile
        /\ ~receivingFile'
        /\ UNCHANGED <<files, receivedSize, expectedSize>>
        /\ IF mqttManager # "null" /\ connected
           THEN /\ Len(published') = Len(published) + 1
                /\ published'[Len(published')].topic = "TOPIC_RESPONSE"
                /\ published'[Len(published')].msg = UPLOAD_COMPLETE
           ELSE UNCHANGED published]_vars

\* An upload has been finalized by END with fewer bytes received than
\* announced, and UPLOAD_COMPLETE was published.
C27_Witness ==
  /\ lastMsg = END_MSG
  /\ upStatus = "complete"
  /\ ~receivingFile
  /\ sdFile = NoFile
  /\ receivedSize < expectedSize
  /\ published # <<>>
  /\ published[Len(published)].msg = UPLOAD_COMPLETE

\* C28: an END that arrives while no transfer is receiving, such as the
\* second of two ENDs in a row, closes nothing, publishes nothing, and leaves
\* receivedSize, expectedSize, the stored files and the flush counter as they
\* were.
C28_SecondEndNoOp ==
  [][(EndCall /\ ~receivingFile)
     => UNCHANGED <<sdFile, bytesSinceFlush, files, receivingFile,
                    receivedSize, expectedSize, recvFilename, published,
                    upStatus>>]_vars

\* END has arrived with no transfer receiving, after an END that finalized
\* an upload with a manager attached.
C28_Witness ==
  /\ lastMsg = END_MSG
  /\ ~preReceiving
  /\ ~receivingFile
  /\ upStatus = "complete"
  /\ Len(published) = 1
  /\ published[1].msg = UPLOAD_COMPLETE

\* A handler call whose CHUNK was written in full, and its byte count.
ChunkWritten == hSeq' # hSeq /\ Len(okChunks') = Len(okChunks) + 1
WrittenBytes == receivedSize' - receivedSize

\* A handler call for START that ends with the destination open.
FileOpened == hSeq' # hSeq /\ IsStartMsg(lastMsg') /\ sdFile' # NoFile

\* A step that closes the file that was open: the handle is released, or
\* openForWrite closes it before opening the next one.
FileClosed ==
  /\ sdFile # NoFile
  /\ sdFile' = NoFile \/ (hSeq' # hSeq /\ IsStartMsg(lastMsg'))

\* The flush counter after a write follows the byte count: it returns to 0
\* exactly when the bytes since the last flush reach the interval, and
\* stays below the interval.
FlushByBytes ==
  /\ ChunkWritten =>
       bytesSinceFlush' = IF bytesSinceFlush + WrittenBytes >= FlushEvery
                          THEN 0
                          ELSE bytesSinceFlush + WrittenBytes
  /\ bytesSinceFlush' < FlushEvery

\* C29: the intermediate flush follows the byte count, not the chunk count:
\* after a write the counter is 0 exactly when the bytes since the last
\* flush reached the interval, it is always below the interval, and every
\* step that opens or closes a file leaves the counter at 0.
C29_FlushByByteCount ==
  [][/\ FlushByBytes
     /\ (FileOpened \/ FileClosed) => bytesSinceFlush' = 0]_vars

\* A handler call for a CHUNK whose write stored fewer bytes than asked.
WriteFailedCall ==
  /\ hSeq' # hSeq
  /\ receivingFile
  /\ IsChunkMsg(lastMsg')
  /\ upStatus' = "write-failed"

\* A handler call for a CHUNK after a failed write, before any new START.
ChunkAfterFailure ==
  /\ hSeq' # hSeq
  /\ IsChunkMsg(lastMsg')
  /\ upStatus = "write-failed"

\* C33: a CHUNK whose write fails aborts the transfer: the file is closed,
\* the transfer is not receiving, receivedSize is as before and no ACK is
\* published for it; every CHUNK that follows before a new START is
\* rejected, changing nothing and publishing nothing.
C33_WriteFailureAborts ==
  [][/\ WriteFailedCall
        => /\ sdFile' = NoFile
           /\ ~receivingFile'
           /\ UNCHANGED <<receivedSize, expectedSize, published, okChunks>>
     /\ ChunkAfterFailure
        => /\ ~receivingFile
           /\ UNCHANGED <<sdFile, bytesSinceFlush, files, xferVars,
                          published, okChunks, upStatus>>]_vars

\* After one chunk was written and acknowledged, the write of a chunk
\* failed, and a further CHUNK has arrived with the transfer not receiving.
C33_Witness ==
  /\ upStatus = "write-failed"
  /\ IsChunkMsg(lastMsg)
  /\ ~MalformedChunk(lastMsg)
  /\ ~preReceiving
  /\ ~receivingFile
  /\ sdFile = NoFile
  /\ receivedSize > 0
  /\ Len(AckCalls) = 1

\* C25: when mp3->loop() returns false, loop() leaves no decoder, source or
\* tag reader and isPlaying false; the status reported is 'finished' when
\* a manager is attached and no status is reported otherwise; and a loop()
\* that finds isPlaying false changes neither the audio fields nor the
\* status.
C25_EndOfFileToIdle ==
  /\ [][(dpc = "decode" /\ mp3More' = "false")
         => /\ mp3' = "null"
            /\ id3' = "null"
            /\ file' = "null"
            /\ ~isPlaying'
            /\ lastStatus' = IF mqttManager # "null" THEN "finished"
                                                     ELSE lastStatus]_vars
  /\ [][(dpc = "test" /\ dpc' # "test" /\ ~isPlaying)
         => /\ dpc' = "give"
            /\ UNCHANGED <<engineFields, lastStatus>>]_vars

\* loop() has just torn down the decoder at the end of a file and published
\* 'finished'.
C25_Witness ==
  /\ dpc = "give"
  /\ mp3More = "false"
  /\ lastStatus = "finished"
  /\ mp3 = "null"
  /\ ~isPlaying
  /\ ~useAfterDelete

(***************************************************************************)
(* topicMatches applied to every bounded (pattern, topic) pair.            *)
(***************************************************************************)
MatchInputs ==
  /\ mPattern \in Patterns
  /\ mTopic \in Topics
  /\ mResult = "none"

CallTopicMatches ==
  /\ mResult = "none"
  /\ mResult' = BoolStr(topicMatches(mPattern, mTopic))
  /\ UNCHANGED <<mPattern, mTopic, notMatch>>

MatchNext == CallTopicMatches

InitMatch ==
  MatchInputs /\ DispInit /\ StreamInit /\ UploadInit /\ EngineInit /\ ModeInit
  /\ LinkInit /\ AuxInit

SpecMatch == InitMatch /\ [][MatchNext]_vars

\* C1: for every pattern and topic, topicMatches returns true exactly when
\* the segment-wise wildcard semantics hold ('+' one segment, trailing '#'
\* the remainder, other segments literal, equal segment counts otherwise).
C1_MatchesStandard ==
  mResult # "none" => mResult = BoolStr(StandardMatch(mPattern, mTopic))

\* The pattern has a '#' segment that is not its last segment.
HashBeforeLast(pattern) ==
  \E i \in 1..(Len(Segments(pattern)) - 1) : Segments(pattern)[i] = <<"#">>

\* The pattern ends in a '#' segment, behind at least one other segment,
\* and has no other '#' segment.
HashLastOnly(pattern) ==
  /\ Len(Segments(pattern)) >= 2
  /\ Segments(pattern)[Len(Segments(pattern))] = <<"#">>
  /\ ~HashBeforeLast(pattern)

\* The topic has a segment for every segment of the pattern and agrees
\* with the pattern on the segments before the last ('+' agrees with any).
AgreesBeforeLast(pattern, topic) ==
  /\ Len(Segments(topic)) >= Len(Segments(pattern))
  /\ \A i \in 1..(Len(Segments(pattern)) - 1) :
       \/ Segments(pattern)[i] = <<"+">>
       \/ Segments(pattern)[i] = Segments(topic)[i]

\* C17: a pattern with a '#' segment that is not the last one matches only
\* the identical string, and a pattern ending in '/#' matches exactly the
\* topics that agree with it on the segments before the '#'.
C17_HashOnlyLast ==
  mResult # "none" =>
    /\ HashBeforeLast(mPattern) =>
         (mResult = "true" <=> mPattern = mTopic)
    /\ HashLastOnly(mPattern) =>
         (mResult = "true" <=> AgreesBeforeLast(mPattern, mTopic))

====
